---------------------------- MODULE Spec2Model ----------------------------
(***************************************************************************)
(* A model of the maestro schema registry (src/src/maestro/                *)
(* schema_registry.py): the schema codec, the registry store on top of the *)
(* etcd key/value store, and the HTTP request handlers.                    *)
(*                                                                         *)
(* Conventions.                                                            *)
(*  - A Python string that the code splits, concatenates or prefix-scans   *)
(*    (metric and schema names, ids, etcd keys) is a sequence of tokens.   *)
(*    A token is "/" or "-" or a chunk of characters holding neither, so   *)
(*    that rsplit('/'), rsplit('-') and prefix scans act on the model as   *)
(*    they act on the characters.                                          *)
(*  - Strings the code only stores and compares (type strings, units, doc) *)
(*    are TLA+ strings; None stands for Python's None / JSON null / a key  *)
(*    that is absent from a JSON object and read with .get().              *)
(*  - An optional value of another type is <<>> (absent) or <<v>>.         *)
(*  - hashlib.sha256 is modelled as collision free: the hex digest is the  *)
(*    hex encoding of the hash input itself.  It is built from the         *)
(*    characters 0-9a-f only, as the real hex digest is.                   *)
(***************************************************************************)
EXTENDS Integers, Sequences, FiniteSets, Bags, TLC

None == "None"

SL == "/"

DASH == "-"

(***************************************************************************)
(* str.rsplit(sep, 1): the position of the last separator (0 when there is *)
(* none) and the two parts around it.                                      *)
(***************************************************************************)
LastIndexOf(s, sep) ==
    LET at == {i \in 1..Len(s) : s[i] = sep}
    IN  IF at = {} THEN 0 ELSE CHOOSE i \in at : \A j \in at : j <= i

RSplit1(s, sep) ==
    LET i == LastIndexOf(s, sep)
    IN  IF i = 0 THEN <<s>>
        ELSE <<SubSeq(s, 1, i - 1), SubSeq(s, i + 1, Len(s))>>

\* str.rsplit(sep, 2): at most three parts, split at the last two separators.
RSplit2(s, sep) ==
    LET one == RSplit1(s, sep)
    IN  IF Len(one) = 1 THEN one
        ELSE RSplit1(one[1], sep) \o <<one[2]>>

\* str.startswith / the key range of an etcd prefix scan.
StartsWith(s, p) ==
    /\ Len(p) <= Len(s)
    /\ SubSeq(s, 1, Len(p)) = p

(***************************************************************************)
(* ValueType and the translation tables.                                   *)
(***************************************************************************)
ValueTypeValue ==
    [ CHAR |-> 1, U8 |-> 2, S8 |-> 3, U16 |-> 4, S16 |-> 5, U32 |-> 6,
      S32 |-> 7, U64 |-> 8, S64 |-> 9, F32 |-> 10, D64 |-> 11,
      CHAR_ARRAY |-> 12, U8_ARRAY |-> 13, S8_ARRAY |-> 14, U16_ARRAY |-> 15,
      S16_ARRAY |-> 16, U32_ARRAY |-> 17, S32_ARRAY |-> 18, U64_ARRAY |-> 19,
      S64_ARRAY |-> 20, F32_ARRAY |-> 21, D64_ARRAY |-> 22,
      LIST |-> 23, LIST_ENTRY |-> 24, RECORD_TYPE |-> 25, RECORD_INST |-> 26,
      RECORD_ARRAY |-> 27, TIMESTAMP |-> 28 ]

ValueType == DOMAIN ValueTypeValue

STR_TYPE_TBL ==
    [ int |-> "S32", long |-> "S64", float |-> "F32", double |-> "D64",
      char |-> "CHAR", u8 |-> "U8", s8 |-> "S8", u16 |-> "U16",
      s16 |-> "S16", u32 |-> "U32", s32 |-> "S32", u64 |-> "U64",
      s64 |-> "S64", f32 |-> "F32", d64 |-> "D64" ]
    @@ ( "char[]" :> "CHAR_ARRAY" @@ "u8[]" :> "U8_ARRAY"
      @@ "s8[]" :> "S8_ARRAY" @@ "u16[]" :> "U16_ARRAY"
      @@ "s16[]" :> "S16_ARRAY" @@ "u32[]" :> "U32_ARRAY"
      @@ "s32[]" :> "S32_ARRAY" @@ "u64[]" :> "U64_ARRAY"
      @@ "s64[]" :> "S64_ARRAY" @@ "f32[]" :> "F32_ARRAY"
      @@ "d64[]" :> "D64_ARRAY"
      @@ "record" :> "RECORD_TYPE" @@ "record[]" :> "RECORD_ARRAY"
      @@ "list" :> "LIST" )

\* The string keys of ARRAY_TBL (the keys a JSON document can carry).
ARRAY_TBL ==
    [ int |-> "S32_ARRAY", long |-> "S64_ARRAY", float |-> "F32_ARRAY",
      double |-> "D64_ARRAY",
      char |-> "CHAR_ARRAY", u8 |-> "U8_ARRAY", s8 |-> "S8_ARRAY",
      u16 |-> "U16_ARRAY", s16 |-> "S16_ARRAY", u32 |-> "U32_ARRAY",
      s32 |-> "S32_ARRAY", u64 |-> "U64_ARRAY", s64 |-> "S64_ARRAY",
      f32 |-> "F32_ARRAY", d64 |-> "D64_ARRAY",
      record |-> "RECORD_ARRAY" ]
    @@ ( "char[]" :> "CHAR_ARRAY" @@ "u8[]" :> "U8_ARRAY"
      @@ "s8[]" :> "S8_ARRAY" @@ "u16[]" :> "U16_ARRAY"
      @@ "s16[]" :> "S16_ARRAY" @@ "u32[]" :> "U32_ARRAY"
      @@ "s32[]" :> "S32_ARRAY" @@ "u64[]" :> "U64_ARRAY"
      @@ "s64[]" :> "S64_ARRAY" @@ "f32[]" :> "F32_ARRAY"
      @@ "d64[]" :> "D64_ARRAY"
      @@ "record[]" :> "RECORD_ARRAY" )

TYPE_STR_TBL ==
    [ CHAR |-> "char", U8 |-> "u8", S8 |-> "s8", U16 |-> "u16",
      S16 |-> "s16", U32 |-> "u32", S32 |-> "int", U64 |-> "u64",
      S64 |-> "s64", F32 |-> "f32", D64 |-> "d64",
      CHAR_ARRAY |-> "char[]", U8_ARRAY |-> "u8[]", S8_ARRAY |-> "s8[]",
      U16_ARRAY |-> "u16[]", S16_ARRAY |-> "s16[]", U32_ARRAY |-> "u32[]",
      S32_ARRAY |-> "int[]", U64_ARRAY |-> "u64[]", S64_ARRAY |-> "long[]",
      F32_ARRAY |-> "float[]", D64_ARRAY |-> "double[]",
      LIST |-> "list", RECORD_TYPE |-> "record", RECORD_ARRAY |-> "record[]" ]

\* The string keys of ITEM_TYPE_TBL.
ITEM_TYPE_TBL ==
    [ int |-> "S32", long |-> "S64", float |-> "F32", double |-> "D64",
      char |-> "CHAR", u8 |-> "U8", s8 |-> "S8", u16 |-> "U16",
      s16 |-> "S16", u32 |-> "U32", s32 |-> "S32", u64 |-> "U64",
      s64 |-> "S64", f32 |-> "F32", d64 |-> "D64",
      record |-> "RECORD_TYPE" ]
    @@ ( "char[]" :> "CHAR" @@ "u8[]" :> "U8" @@ "s8[]" :> "S8"
      @@ "u16[]" :> "U16" @@ "s16[]" :> "S16" @@ "u32[]" :> "U32"
      @@ "s32[]" :> "S32" @@ "u64[]" :> "U64" @@ "s64[]" :> "S64"
      @@ "f32[]" :> "F32" @@ "d64[]" :> "D64"
      @@ "record[]" :> "RECORD_TYPE" )

(***************************************************************************)
(* Results of calls that may raise: Ok(v) or Err(exception class, message).*)
(***************************************************************************)
Ok(v) == [ok |-> TRUE, val |-> v, exc |-> None, msg |-> None]

Err(e, m) == [ok |-> FALSE, val |-> None, exc |-> e, msg |-> m]

\* dict.get(key): None for a key the table does not hold.
TblGet(tbl, key) == IF key \in DOMAIN tbl THEN tbl[key] ELSE None

\* ValueType.from_json_str.
ValueType_from_json_str(_str) == TblGet(STR_TYPE_TBL, _str)

\* ValueType.to_json_str: TYPE_STR_TBL[self]; the lookup raises KeyError for
\* a kind the table lacks, and the call raises AttributeError on a type that
\* is None.
ValueType_to_json_str(t) ==
    IF t = None THEN Err("AttributeError", "to_json_str")
    ELSE IF t \notin DOMAIN TYPE_STR_TBL THEN Err("KeyError", t)
    ELSE Ok(TYPE_STR_TBL[t])

(***************************************************************************)
(* JSON documents.  A field object carries every key; None, <<>> mark the  *)
(* keys that are absent.                                                   *)
(***************************************************************************)
JField(name, type) ==
    [ name |-> name, type |-> type, doc |-> None, units |-> None,
      is_meta |-> <<>>, items |-> None, len |-> <<>>, heap_sz |-> <<>>,
      record_type |-> <<>>, fields |-> <<>> ]

\* bool(obj.get('is_meta'))
Truthy(opt) == opt # <<>> /\ opt[1]

\* obj.get(key, -1)
GetOr(opt, dflt) == IF opt = <<>> THEN dflt ELSE opt[1]

(***************************************************************************)
(* Schema entities.  Every metric object carries every attribute; the ones *)
(* its class does not have are None / <<>>.                                *)
(***************************************************************************)
\* SchemaMetric.__init__ (via the subclass constructors).
SchemaMetric(cls, name, type, doc, is_meta, units) ==
    [ cls |-> cls, name |-> name, type |-> type, doc |-> doc,
      units |-> units, is_meta |-> is_meta,
      item_type |-> None, len |-> <<>>, heap_sz |-> <<>>,
      record_type |-> <<>>, metrics |-> <<>> ]

SchemaMetricPrimitive_from_dict(obj) ==
    Ok(SchemaMetric("Primitive", obj.name, ValueType_from_json_str(obj.type),
                    obj.doc, Truthy(obj.is_meta), obj.units))

\* SchemaMetricArray.__init__: the assert of SchemaMetric.__init__ fails when
\* ARRAY_TBL does not know the item type.
SchemaMetricArray_init(cls, name, item_type, _len, is_meta, units, doc) ==
    LET array_type == TblGet(ARRAY_TBL, item_type)
    IN  IF array_type = None
        THEN Err("AssertionError", "_type is not None")
        ELSE Ok([ SchemaMetric(cls, name, array_type, doc, is_meta, units)
                  EXCEPT !.item_type = TblGet(ITEM_TYPE_TBL, item_type),
                         !.len = <<_len>> ])

SchemaMetricRecordArray_from_dict(obj) ==
    IF obj.type # "array" THEN Err("ValueError", "not an 'array' type")
    ELSE IF obj.items = None THEN Err("KeyError", "items")
    ELSE IF TblGet(ARRAY_TBL, obj.items) # "RECORD_ARRAY"
    THEN Err("ValueError", "Not a record array")
    ELSE IF obj.record_type = <<>> THEN Err("KeyError", "record_type")
    ELSE LET a == SchemaMetricArray_init("RecordArray", obj.name, "record",
                      GetOr(obj.len, -1), Truthy(obj.is_meta), obj.units,
                      obj.doc)
         IN  Ok([a.val EXCEPT !.record_type = obj.record_type])

SchemaMetricArray_from_dict(obj) ==
    IF obj.type # "array" THEN Err("ValueError", "not an 'array' type")
    ELSE IF obj.items = None THEN Err("KeyError", "items")
    ELSE IF TblGet(ARRAY_TBL, obj.items) = "RECORD_ARRAY"
    THEN SchemaMetricRecordArray_from_dict(obj)
    ELSE SchemaMetricArray_init("Array", obj.name, obj.items,
             GetOr(obj.len, -1), Truthy(obj.is_meta), obj.units, obj.doc)

\* cls(name, heap_sz): is_meta, units and doc of the document are not passed.
SchemaMetricList_from_dict(obj) ==
    IF obj.type # "list" THEN Err("ValueError", "not a 'list' type")
    ELSE Ok([ SchemaMetric("List", obj.name, "LIST", None, FALSE, None)
              EXCEPT !.heap_sz = <<GetOr(obj.heap_sz, -1)>> ])

RECURSIVE SchemaMetric_from_dict(_)

\* The loop of SchemaMetricRecord.from_dict over json_obj['fields'].
RECURSIVE RecordFields(_, _, _, _)

RecordFields(fields, i, name_set, metrics) ==
    IF i > Len(fields) THEN Ok(metrics)
    ELSE LET f == fields[i]
         IN  IF f.name = <<>>
             THEN Err("ValueError", "Missing 'name' attribute in the record field")
             ELSE IF f.type = None
             THEN Err("ValueError", "Missing 'type' attribute in the record field")
             ELSE IF f.name \in name_set
             THEN Err("ValueError", "Field appeared multiple times")
             ELSE LET m == SchemaMetric_from_dict(f)
                  IN  IF ~m.ok THEN m
                      ELSE RecordFields(fields, i + 1, name_set \cup {f.name},
                                        Append(metrics, m.val))

\* SchemaMetricRecord(name, metrics): is_meta defaults to True; units and doc
\* of the document are not passed.
SchemaMetricRecord_from_dict(json_obj) ==
    IF json_obj.type = None THEN Err("KeyError", "type")
    ELSE IF json_obj.type # "record"
    THEN Err("ValueError", "Expecting 'record' type")
    ELSE IF json_obj.name = <<>> THEN Err("ValueError", "Missing 'name' attribute")
    ELSE IF json_obj.fields = <<>>
    THEN Err("ValueError", "Missing 'fields' attribute")
    ELSE LET ms == RecordFields(json_obj.fields, 1, {}, <<>>)
         IN  IF ~ms.ok THEN ms
             ELSE Ok([ SchemaMetric("Record", json_obj.name, "RECORD_TYPE",
                                    None, TRUE, None)
                       EXCEPT !.metrics = ms.val ])

SchemaMetric_from_dict(obj) ==
    IF obj.type = None THEN Err("KeyError", "type")
    ELSE IF obj.type = "array" THEN SchemaMetricArray_from_dict(obj)
    ELSE IF obj.type = "list" THEN SchemaMetricList_from_dict(obj)
    ELSE IF obj.type = "record" THEN SchemaMetricRecord_from_dict(obj)
    ELSE SchemaMetricPrimitive_from_dict(obj)

\* Schema.__init__
Schema(name, metrics, doc) == [name |-> name, metrics |-> metrics, doc |-> doc]

\* Schema.from_dict (and from_json: json.loads, then from_dict).
Schema_from_dict(json_obj) ==
    LET sch_def == IF "schema" \in DOMAIN json_obj THEN json_obj.schema
                   ELSE json_obj
    IN  IF sch_def.type = None THEN Err("KeyError", "type")
        ELSE IF sch_def.type # "record"
        THEN Err("ValueError", "Unsupported schema type")
        ELSE LET rec == SchemaMetricRecord_from_dict(sch_def)
             IN  IF ~rec.ok THEN rec
                 ELSE Ok(Schema(rec.val.name, rec.val.metrics, rec.val.doc))

(***************************************************************************)
(* Emission: as_dict of every class.  json.dumps and json.loads are the    *)
(* standard library's and inverse to each other on these documents, so a   *)
(* stored body is the document as_dict returns.                            *)
(***************************************************************************)
JBool(b) == <<b>>

SchemaMetricPrimitive_as_dict(m) ==
    LET t == ValueType_to_json_str(m.type)
    IN  IF ~t.ok THEN t
        ELSE Ok([ JField(m.name, t.val) EXCEPT
                  !.is_meta = JBool(m.is_meta), !.units = m.units,
                  !.doc = m.doc ])

SchemaMetricArray_as_dict(m) ==
    LET t == ValueType_to_json_str(m.item_type)
    IN  IF ~t.ok THEN t
        ELSE Ok([ JField(m.name, "array") EXCEPT
                  !.is_meta = JBool(m.is_meta), !.units = m.units,
                  !.doc = m.doc, !.items = t.val, !.len = m.len ])

SchemaMetricList_as_dict(m) ==
    Ok([ JField(m.name, "list") EXCEPT
         !.is_meta = JBool(m.is_meta), !.units = m.units, !.doc = m.doc,
         !.heap_sz = m.heap_sz ])

SchemaMetricRecordArray_as_dict(m) ==
    Ok([ JField(m.name, "array") EXCEPT
         !.is_meta = JBool(m.is_meta), !.units = m.units, !.doc = m.doc,
         !.items = "record", !.record_type = m.record_type, !.len = m.len ])

RECURSIVE SchemaMetric_as_dict(_)

\* [ m.as_dict() for m in metrics ]
RECURSIVE MetricsAsDict(_, _, _)

MetricsAsDict(metrics, i, out) ==
    IF i > Len(metrics) THEN Ok(out)
    ELSE LET d == SchemaMetric_as_dict(metrics[i])
         IN  IF ~d.ok THEN d
             ELSE MetricsAsDict(metrics, i + 1, Append(out, d.val))

SchemaMetricRecord_as_dict(m) ==
    LET fs == MetricsAsDict(m.metrics, 1, <<>>)
    IN  IF ~fs.ok THEN fs
        ELSE Ok([ JField(m.name, "record") EXCEPT
                  !.is_meta = JBool(m.is_meta), !.units = m.units,
                  !.doc = m.doc, !.fields = fs.val ])

\* Dispatch on the object's class (the method each subclass overrides).
SchemaMetric_as_dict(m) ==
    CASE m.cls = "Primitive"   -> SchemaMetricPrimitive_as_dict(m)
      [] m.cls = "Array"       -> SchemaMetricArray_as_dict(m)
      [] m.cls = "List"        -> SchemaMetricList_as_dict(m)
      [] m.cls = "Record"      -> SchemaMetricRecord_as_dict(m)
      [] m.cls = "RecordArray" -> SchemaMetricRecordArray_as_dict(m)

\* Schema.as_dict / as_json: the document, under the "schema" key.
Schema_as_dict(sch) ==
    LET fs == MetricsAsDict(sch.metrics, 1, <<>>)
    IN  IF ~fs.ok THEN fs
        ELSE Ok([ schema |-> [ JField(sch.name, "record") EXCEPT
                               !.doc = sch.doc, !.fields = fs.val ] ])

(***************************************************************************)
(* Digest and id.                                                          *)
(***************************************************************************)
\* The code points of the characters that names are built from.
Ord ==
    ( "a" :> 97 @@ "b" :> 98 @@ "l" :> 108 @@ "m" :> 109 @@ "n" :> 110
   @@ "r" :> 114 @@ "x" :> 120 @@ "y" :> 121 @@ "-" :> 45 @@ "/" :> 47 )

\* str.encode() of a name.
Encode(name) == [i \in 1..Len(name) |-> Ord[name[i]]]

\* int.to_bytes(4, 'little') of an enum value (all are below 256).
ToBytes4Little(v) == <<v, 0, 0, 0>>

RECURSIVE SchemaMetric_update_digest(_, _)

\* for m in metrics: m.update_digest(h)
RECURSIVE MetricsUpdateDigest(_, _, _)

MetricsUpdateDigest(metrics, i, h) ==
    IF i > Len(metrics) THEN Ok(h)
    ELSE LET h1 == SchemaMetric_update_digest(metrics[i], h)
         IN  IF ~h1.ok THEN h1
             ELSE MetricsUpdateDigest(metrics, i + 1, h1.val)

\* SchemaMetric.update_digest, and SchemaMetricRecord's override, which
\* digests the members first.  h is the input hashed so far; self.type.value
\* raises AttributeError when the type is None.
SchemaMetric_update_digest(m, h) ==
    LET h0 == IF m.cls = "Record" THEN MetricsUpdateDigest(m.metrics, 1, h)
              ELSE Ok(h)
    IN  IF ~h0.ok THEN h0
        ELSE IF m.type = None THEN Err("AttributeError", "value")
        ELSE Ok(h0.val \o Encode(m.name)
                       \o ToBytes4Little(ValueTypeValue[m.type]))

\* Schema.digest
Schema_digest(sch) == MetricsUpdateDigest(sch.metrics, 1, <<>>)

HexDigits ==
    << "0", "1", "2", "3", "4", "5", "6", "7", "8", "9",
       "a", "b", "c", "d", "e", "f" >>

\* bytes.hex()
RECURSIVE Hex(_)

Hex(bytes) ==
    IF bytes = <<>> THEN <<>>
    ELSE << HexDigits[(bytes[1] \div 16) + 1], HexDigits[(bytes[1] % 16) + 1] >>
         \o Hex(Tail(bytes))

\* Schema.id: f"{self.name}-{self.digest.hex()}"
Schema_id(sch) ==
    LET d == Schema_digest(sch)
    IN  IF ~d.ok THEN d ELSE Ok(sch.name \o <<DASH>> \o Hex(d.val))

(***************************************************************************)
(* JSON text, and compatibility.                                           *)
(***************************************************************************)
\* Schema.as_json.  A JSON text is told apart from the document it writes;
\* json.loads(json.dumps(obj)) is obj for the documents of this module,
\* whose keys are strings and whose values are strings, numbers, booleans,
\* null and lists.
Schema_as_json(sch) ==
    LET json_dumps(obj) == [json |-> obj]
        d == Schema_as_dict(sch)
    IN  IF ~d.ok THEN d ELSE Ok(json_dumps(d.val))

\* Schema.from_json: a str is loaded first, a dict is taken as it is.
Schema_from_json(json_obj) ==
    LET json_loads(text) == text.json
    IN  IF DOMAIN json_obj = {"json"}
        THEN Schema_from_dict(json_loads(json_obj))
        ELSE Schema_from_dict(json_obj)

RECURSIVE SchemaMetric_compatible(_, _)

\* for m0, m1 in zip(metrics, other_metrics): if not m0.compatible(m1):
\* return False; an exception of m0.compatible(m1) ends the loop too.
RECURSIVE MetricsCompatible(_, _, _)

MetricsCompatible(metrics, other_metrics, i) ==
    IF i > Len(metrics) \/ i > Len(other_metrics) THEN Ok(TRUE)
    ELSE LET c == SchemaMetric_compatible(metrics[i], other_metrics[i])
         IN  IF ~c.ok THEN c
             ELSE IF ~c.val THEN Ok(FALSE)
             ELSE MetricsCompatible(metrics, other_metrics, i + 1)

\* compatible of every class.  The attributes item_type and len are those
\* of SchemaMetricArray and its subclass only: other.item_type, which is
\* read once the names and the types were found equal, raises
\* AttributeError for an object of another class.
SchemaMetric_compatible(self, other) ==
    LET common == /\ self.name = other.name
                  /\ self.type = other.type
                  /\ self.units = other.units
                  /\ self.is_meta = other.is_meta
    IN  CASE self.cls \in {"Primitive", "List"} -> Ok(common)
          [] self.cls \in {"Array", "RecordArray"} ->
               IF self.name # other.name \/ self.type # other.type
               THEN Ok(FALSE)
               ELSE IF other.cls \notin {"Array", "RecordArray"}
               THEN Err("AttributeError", "item_type")
               ELSE Ok(/\ self.item_type = other.item_type
                       /\ self.len = other.len
                       /\ self.units = other.units
                       /\ self.is_meta = other.is_meta)
          [] self.cls = "Record" ->
               IF other.cls # "Record" THEN Ok(FALSE)
               ELSE IF Len(self.metrics) # Len(other.metrics) THEN Ok(FALSE)
               ELSE LET ms == MetricsCompatible(self.metrics, other.metrics, 1)
                    IN  IF ~ms.ok THEN ms
                        ELSE IF ~ms.val THEN Ok(FALSE)
                        ELSE Ok(common)

\* Schema.compatible
Schema_compatible(self, other) ==
    IF Len(self.metrics) # Len(other.metrics) THEN Ok(FALSE)
    ELSE MetricsCompatible(self.metrics, other.metrics, 1)

(***************************************************************************)
(* The native form.  ldms is a library outside this repository: a          *)
(* RecordDef is the name and the member descriptors it was made from, and  *)
(* an ldms.Schema the descriptors that add_metric was given, in the order  *)
(* of the calls.  A metric_type is a type string or a RecordDef.           *)
(***************************************************************************)
TypeStr(_str) == [cls |-> "str", str |-> _str, name |-> <<>>, mlist |-> <<>>]

\* ldms.RecordDef(name, mlist)
RecordDef(name, mlist) ==
    [cls |-> "RecordDef", str |-> "None", name |-> name, mlist |-> mlist]

\* The dictionary every as_ldms_metric_desc returns: 'meta' and 'units' are
\* set when the attribute is truthy, 'count' and 'rec_def' by the classes
\* that have them.
MetricDesc(m, metric_type, count, rec_def) ==
    [ name |-> m.name, metric_type |-> metric_type, count |-> count,
      meta |-> IF m.is_meta THEN <<TRUE>> ELSE <<>>,
      units |-> m.units, rec_def |-> rec_def ]

RECURSIVE SchemaMetric_as_ldms_metric_desc(_, _)

\* [ m.as_ldms_metric_desc() for m in self.metrics ]
RECURSIVE MetricsAsLdmsDesc(_, _, _)

MetricsAsLdmsDesc(metrics, i, mlist) ==
    IF i > Len(metrics) THEN Ok(mlist)
    ELSE LET d == SchemaMetric_as_ldms_metric_desc(metrics[i], <<>>)
         IN  IF ~d.ok THEN d
             ELSE MetricsAsLdmsDesc(metrics, i + 1, Append(mlist, d.val))

\* as_ldms_metric_desc of every class; rec_def is the argument of the
\* record array's method, <<>> when the call passes none.
SchemaMetric_as_ldms_metric_desc(m, rec_def) ==
    LET t == ValueType_to_json_str(m.type)
    IN  CASE m.cls = "Primitive" ->
               IF ~t.ok THEN t
               ELSE Ok(MetricDesc(m, TypeStr(t.val), <<>>, <<>>))
          [] m.cls = "Array" ->
               IF ~t.ok THEN t
               ELSE Ok(MetricDesc(m, TypeStr(t.val), m.len, <<>>))
          [] m.cls = "List" ->
               IF ~t.ok THEN t
               ELSE Ok(MetricDesc(m, TypeStr(t.val), m.heap_sz, <<>>))
          [] m.cls = "Record" ->
               LET mlist == MetricsAsLdmsDesc(m.metrics, 1, <<>>)
               IN  IF ~mlist.ok THEN mlist
                   ELSE Ok(MetricDesc(m, RecordDef(m.name, mlist.val), <<>>,
                                      <<>>))
          [] m.cls = "RecordArray" ->
               IF rec_def = <<>>
               THEN Err("TypeError", "missing argument 'rec_def'")
               ELSE IF rec_def[1].cls # "RecordDef"
               THEN Err("TypeError", "Type of rec_def must be RecordDef")
               ELSE Ok(MetricDesc(m, TypeStr("record[]"), m.len, rec_def))

\* The loop body without the lookup of the record type: a record array is
\* realized against a record definition of that name, wherever the record
\* stands in the schema.
as_ldms_schema_metric_unordered(m, _mdict) ==
    SchemaMetric_as_ldms_metric_desc(m,
        IF m.cls = "RecordArray"
        THEN << RecordDef(m.record_type[1], <<>>) >> ELSE <<>>)

\* The body of the loop of Schema.as_ldms_schema: the descriptor of the
\* field m, given the descriptors _mdict of the fields before it by name.
\* m.record_type is an attribute of SchemaMetricRecordArray only.
as_ldms_schema_metric(m, _mdict) ==
    IF m.type = "RECORD_ARRAY"
    THEN IF m.cls # "RecordArray" THEN Err("AttributeError", "record_type")
         ELSE IF m.record_type[1] \notin DOMAIN _mdict
         THEN Err("ValueError", "RECORD_ARRAY uses unknown RECORD_TYPE")
         ELSE IF _mdict[m.record_type[1]].metric_type.cls # "RecordDef"
         THEN Err("TypeError", "RECORD_ARRAY refers to a non-record type")
         ELSE SchemaMetric_as_ldms_metric_desc(m,
                  << _mdict[m.record_type[1]].metric_type >>)
    ELSE SchemaMetric_as_ldms_metric_desc(m, <<>>)

\* Schema.as_ldms_schema: the ldms.Schema, or the exception of the field
\* that raised, with the descriptors added before it as val.
Schema_as_ldms_schema(self) ==
    LET RECURSIVE loop(_, _, _)
        loop(i, _mdict, sch) ==
            IF i > Len(self.metrics) THEN Ok(sch)
            ELSE LET m == self.metrics[i]
                     _m == as_ldms_schema_metric(m, _mdict)
                 IN  IF ~_m.ok THEN [_m EXCEPT !.val = sch]
                     ELSE loop(i + 1,
                               [k \in DOMAIN _mdict \cup {m.name} |->
                                   IF k = m.name THEN _m.val ELSE _mdict[k]],
                               Append(sch, _m.val))
    IN  loop(1, <<>>, <<>>)

(***************************************************************************)
(* The etcd key/value store behind EtcdProxy.  A store is a function from  *)
(* the keys it holds to their values; each proxied call is atomic (the     *)
(* proxy holds its lock for the whole call).                               *)
(***************************************************************************)
etcd_put(store, k, v) ==
    [x \in (DOMAIN store) \cup {k} |-> IF x = k THEN v ELSE store[x]]

\* <<whether the key was put, the store afterwards>>
etcd_put_if_not_exists(store, k, v) ==
    IF k \in DOMAIN store THEN <<FALSE, store>>
    ELSE <<TRUE, etcd_put(store, k, v)>>

etcd_delete(store, k) == [x \in (DOMAIN store) \ {k} |-> store[x]]

etcd_delete_prefix(store, p) ==
    [x \in {k \in DOMAIN store : ~StartsWith(k, p)} |-> store[x]]

\* <<>> for a key the store does not hold (etcd returns the value None).
etcd_get(store, k) == IF k \in DOMAIN store THEN <<store[k]>> ELSE <<>>

\* The byte order of two keys.  Tokens that differ at the same place of two
\* keys differ in their first character, so its code point decides.
TokenCode ==
    Ord @@ ( "0" :> 48 @@ "1" :> 49 @@ "2" :> 50 @@ "3" :> 51 @@ "4" :> 52
          @@ "5" :> 53 @@ "6" :> 54 @@ "7" :> 55 @@ "8" :> 56 @@ "9" :> 57
          @@ "c" :> 99 @@ "d" :> 100 @@ "e" :> 101 @@ "f" :> 102
          @@ "digests" :> 100 @@ "index" :> 105 @@ "names" :> 110
          @@ "objects" :> 111 @@ "sr" :> 115 )

RECURSIVE KeyLess(_, _)

KeyLess(a, b) ==
    IF b = <<>> THEN FALSE
    ELSE IF a = <<>> THEN TRUE
    ELSE IF a[1] # b[1] THEN TokenCode[a[1]] < TokenCode[b[1]]
    ELSE KeyLess(Tail(a), Tail(b))

\* The keys of a set in ascending order.
RECURSIVE SortKeys(_)

SortKeys(K) ==
    IF K = {} THEN <<>>
    ELSE LET least == CHOOSE k \in K : \A o \in K \ {k} : KeyLess(k, o)
         IN  <<least>> \o SortKeys(K \ {least})

\* get_prefix: the keys under the prefix, in key order.
etcd_get_prefix(store, p) ==
    SortKeys({k \in DOMAIN store : StartsWith(k, p)})

(***************************************************************************)
(* SchemaRegistry: the registry store.                                     *)
(***************************************************************************)
\* sr_conf.get('etcd_prefix', ...): the configured root.
etcd_prefix == <<SL, "sr">>

DIGESTS_PREFIX == etcd_prefix \o <<SL, "index", SL, "digests">>

NAMES_PREFIX == etcd_prefix \o <<SL, "index", SL, "names">>

OBJECTS_PREFIX == etcd_prefix \o <<SL, "objects">>

digest_key(digest, id) == DIGESTS_PREFIX \o <<SL>> \o digest \o <<SL>> \o id

name_key(name, id) == NAMES_PREFIX \o <<SL>> \o name \o <<SL>> \o id

obj_key(id) == OBJECTS_PREFIX \o <<SL>> \o id

\* add_schema up to its first etcd call: the locals it computes, or the
\* exception as_json / digest / id raise.
add_schema_locals(sch) ==
    LET js == Schema_as_dict(sch)
        d  == Schema_digest(sch)
        id == Schema_id(sch)
    IN  IF ~js.ok THEN js
        ELSE IF ~d.ok THEN d
        ELSE Ok([ id |-> id.val, name |-> sch.name, digest |-> Hex(d.val),
                  obj_json |-> js.val ])

\* A store of the object with put in the place of put_if_not_exists.
add_schema_object_put(store, id, obj_json) ==
    << obj_key(id) \notin DOMAIN store, etcd_put(store, obj_key(id), obj_json) >>

\* add_schema, "store the object": <<new_put, store afterwards>>.
add_schema_object(store, id, obj_json) ==
    etcd_put_if_not_exists(store, obj_key(id), obj_json)

\* A name index whose values are the names.
add_schema_name_value(store, name, id) ==
    etcd_put(store, name_key(name, id), name)

\* add_schema, "index by name".
add_schema_name(store, name, id) == etcd_put(store, name_key(name, id), id)

\* add_schema, "index by digest".
add_schema_digest(store, digest, id) ==
    etcd_put(store, digest_key(digest, id), id)

\* get_schema after its etcd.get: ValueError when there is no value.
get_schema(store, id) ==
    LET v == etcd_get(store, OBJECTS_PREFIX \o <<SL>> \o id)
    IN  IF v = <<>> THEN Err("ValueError", "Schema not found")
        ELSE Schema_from_dict(v[1])

\* The grouping loop shared by list_names and list_digests: a dict from the
\* second-last part of each key to the list of the values, in key order.
RECURSIVE GroupByKey(_, _, _)

GroupByKey(store, keys, ret) ==
    IF keys = <<>> THEN ret
    ELSE LET parts == RSplit2(keys[1], SL)
             group == parts[2]
             l     == IF group \in DOMAIN ret THEN ret[group] ELSE <<>>
         IN  GroupByKey(store, Tail(keys),
                 [g \in (DOMAIN ret) \cup {group} |->
                     IF g = group THEN Append(l, store[keys[1]]) ELSE ret[g]])

EmptyDict == [g \in {} |-> <<>>]

\* list_names(name): name is <<>> for None (and for the empty string).
list_names(store, name) ==
    LET nm     == IF name # <<>> THEN name \o <<SL>> ELSE <<>>
        prefix == NAMES_PREFIX \o <<SL>> \o nm
    IN  GroupByKey(store, etcd_get_prefix(store, prefix), EmptyDict)

list_digests(store, digest) ==
    LET dg     == IF digest # <<>> THEN digest \o <<SL>> ELSE <<>>
        prefix == DIGESTS_PREFIX \o <<SL>> \o dg
    IN  GroupByKey(store, etcd_get_prefix(store, prefix), EmptyDict)

\* A delete_schema that splits the id at its first '-'.
delete_schema_keys_split(id) ==
    LET at == { i \in 1..Len(id) : id[i] = DASH }
        i  == CHOOSE j \in at : \A o \in at : j <= o
    IN  IF at = {} THEN Err("ValueError", "not enough values to unpack")
        ELSE Ok(<< obj_key(id),
                   digest_key(SubSeq(id, i + 1, Len(id)), id),
                   name_key(SubSeq(id, 1, i - 1), id) >>)

\* delete_schema up to its loop: the three keys it deletes, in order, or the
\* ValueError of unpacking an id that holds no '-'.
delete_schema_keys(id) ==
    LET parts == RSplit1(id, DASH)
    IN  IF Len(parts) # 2 THEN Err("ValueError", "not enough values to unpack")
        ELSE Ok(<< obj_key(id), digest_key(parts[2], id),
                   name_key(parts[1], id) >>)

\* purge_database
purge_database(store) == etcd_delete_prefix(store, etcd_prefix)

\* dict.get(key, default)
DictGet(d, key, dflt) == IF key \in DOMAIN d THEN d[key] ELSE dflt

\* [ s for s in objs.keys() ]: the keys of a dict, in insertion order.  The
\* order is not modelled: the list is given in key order.
DictKeys(d) == SortKeys(DOMAIN d)

(***************************************************************************)
(* Authentication.                                                         *)
(***************************************************************************)
\* SimpleAuth.__init__: the set of (username, password) pairs, from entries
\* given as dicts or as 2-element lists.
SimpleAuth_init(users) ==
    IF users = <<>> THEN Err("RuntimeError", "No users were given")
    ELSE Ok([ users |-> { <<users[i].username, users[i].password>> :
                          i \in 1..Len(users) } ])

\* An authorize that looks at the username alone.
SimpleAuth_authorize_username(self, cred) ==
    IF cred = <<>> THEN << [status |-> 401, kind |-> "text", val |-> "Nope"] >>
    ELSE IF cred[1] \notin { u[1] : u \in self.users }
    THEN << [status |-> 401, kind |-> "text", val |-> "Bad credentials"] >>
    ELSE <<>>

\* SimpleAuth.authorize: <<>> (None: good) or the response that refuses.
\* cred is request.authorization: <<>> or <<username, password>>.
SimpleAuth_authorize(self, cred) ==
    IF cred = <<>> THEN << [status |-> 401, kind |-> "text", val |-> "Nope"] >>
    ELSE IF cred \notin self.users
    THEN << [status |-> 401, kind |-> "text", val |-> "Bad credentials"] >>
    ELSE <<>>

\* get_auth: <<>> (None) without an auth section, else the auth object.
get_auth(auth_conf) ==
    IF auth_conf = <<>> THEN Ok(<<>>)
    ELSE IF auth_conf[1].type = None
    THEN Err("RuntimeError", "type was not specified in the auth section")
    ELSE IF auth_conf[1].type # "simple"
    THEN Err("RuntimeError", "auth.type not found")
    ELSE LET a == SimpleAuth_init(auth_conf[1].users)
         IN  IF ~a.ok THEN a ELSE Ok(<<a.val>>)

\* auth_check (before_request): <<>> to go on to the handler, else the
\* response returned in its place.
auth_check(sr_auth, cred) ==
    IF sr_auth # <<>> THEN SimpleAuth_authorize(sr_auth[1], cred) ELSE <<>>

(***************************************************************************)
(* The HTTP layer.                                                         *)
(***************************************************************************)
\* json_resp(content): status 200.
json_resp(kind, val) == [status |-> 200, kind |-> kind, val |-> val]

\* return text, 500
text_500(msg) == [status |-> 500, kind |-> "text", val |-> msg]

\* error_handler: it returns None for every exception a handler raises, so
\* Flask has no response to send and the server answers 500 with its own
\* text, whatever the exception was.
error_handler(e) ==
    [status |-> 500, kind |-> "text", val |-> "Internal Server Error"]

(***************************************************************************)
(* The clients' side: the documents posted, the path arguments and the     *)
(* credentials sent, and the server's configuration.                       *)
(***************************************************************************)
Prim(name, type) == JField(<<name>>, type)

SchemaDoc(name, fields) == [JField(name, "record") EXCEPT !.fields = fields]

\* {"name": "m", "type": "record", "fields": [{"name": "x", "type": "u64"}]}
DocM == SchemaDoc(<<"m">>, << Prim("x", "u64") >>)

\* DocM with units on its field: another body with the same digest and id.
DocMkB == SchemaDoc(<<"m">>, << [Prim("x", "u64") EXCEPT !.units = "kB"] >>)

\* A schema name that holds a '-'.
DocDash == SchemaDoc(<<"a", DASH, "b">>, << Prim("x", "u64") >>)

\* A list field that carries units.
DocList == SchemaDoc(<<"m">>, << [Prim("l", "list") EXCEPT !.units = "kB"] >>)

\* A record array whose record_type names no field of the schema.
DocDangling ==
    SchemaDoc(<<"n">>, << [Prim("a", "array") EXCEPT
                           !.items = "record", !.record_type = << <<"r">> >>] >>)

\* A schema name that holds a '/'.
DocSlash == SchemaDoc(<<"a", SL, "b">>, << Prim("x", "u64") >>)

\* A document the codec refuses: its top-level type is not "record".
DocNotRecord == [DocM EXCEPT !.type = "array"]

Docs ==
    { DocM, DocMkB, DocDash, DocList, DocDangling, DocSlash, DocNotRecord }

\* The id the registry gives a document it accepts.
DocId(doc) == Schema_id(Schema_from_dict(doc).val).val

\* Path arguments.  Flask's <name> and <_id> converters match no '/'.  The
\* last id holds no '-'.
PathIds == { DocId(DocM), DocId(DocDash), <<"x">> }

PathNames == { <<"m">>, <<"a">>, <<"a", DASH, "b">> }

PathDigests == { RSplit1(DocId(DocM), DASH)[2] }

Request(op, doc, arg) == [op |-> op, doc |-> doc, arg |-> arg]

\* request.json is <<>> when the body holds no (or an empty) JSON object.
Requests ==
    { Request("index_POST", d, <<>>) : d \in { <<x>> : x \in Docs } \cup { <<>> } }
    \cup { Request(op, <<>>, id) :
             op \in {"schemas_ids_id_GET", "schemas_ids_id_DEL"}, id \in PathIds }
    \cup { Request(op, <<>>, n) :
             op \in {"names_name_DEL", "names_name_versions_GET"},
             n \in PathNames }
    \cup { Request("digests_digest_versions_GET", <<>>, d) : d \in PathDigests }
    \cup { Request(op, <<>>, <<>>) : op \in {"names_GET", "digests_GET"} }

\* request.authorization: none, a configured pair, a configured username
\* with the password of another user.
Creds == { <<>>, <<"u", "p">>, <<"u", "q">> }

\* The auth section of the configuration: absent, or simple with two users,
\* one given as a dict and one as a list.
AuthConfs ==
    { <<>>,
      << [ type |-> "simple",
           users |-> << [username |-> "u", password |-> "p"],
                        [username |-> "v", password |-> "q"] >> ] >> }

Handlers == {1, 2}

\* The number of requests the clients send, and of etcd calls that fail.
MaxRequests == 2

MaxFailures == 1

(***************************************************************************)
(* State.                                                                  *)
(*  kv       the etcd store                                                *)
(*  auth_conf the auth section the registry was constructed with         *)
(*  nservers the registry servers that serve the store: the handlers are  *)
(*           requests to one server, or to one server each                 *)
(*  hs       per request handler: where it is and its locals               *)
(*  nreq     requests received so far                                      *)
(*  nfail    etcd calls that failed so far                                 *)
(*  hs[h].exc    history: the exception that ended the handler, <<>> or     *)
(*           <<class, message>>                                            *)
(*  hs[h].known  history: the request carried a username and password     *)
(*           that the configuration lists                                  *)
(*  touched  history: touched[h] holds when, since h received its request, *)
(*           another handler's add_schema has written a key (for a delete  *)
(*           by id: a key of that id)                                      *)
(***************************************************************************)
VARIABLES kv, auth_conf, nservers, hs, nreq, nfail, touched

registry_vars == <<kv, auth_conf, nservers, hs, nreq, nfail, touched>>

(***************************************************************************)
(* State of one EtcdProxy and of the threads that call through it.         *)
(*  etcd_list  the endpoints the proxy was constructed with                *)
(*  etcd       the endpoint the current client is connected to             *)
(*  etcd_idx   index (from 0) of the endpoint the next client will use     *)
(*  lock       the mutex: <<>> when free, <<c>> when caller c holds it     *)
(*  up         the endpoints that answer at the moment                     *)
(*  calls      per caller: where its proxied call is; tried, stable and    *)
(*             after_failure are history                                   *)
(*  all_failed history: some call has ended because every endpoint failed  *)
(***************************************************************************)
VARIABLES etcd_list, etcd, etcd_idx, lock, up, calls, all_failed

proxy_vars == <<etcd_list, etcd, etcd_idx, lock, up, calls, all_failed>>

(***************************************************************************)
(* State of one Communicator.                                              *)
(*  state  Communicator.state                                              *)
(*  ldms   Communicator.ldms: None, or the status of the transport held    *)
(*  last   history: the last method called, the session before it, what   *)
(*         it handed to the transport and how it ended                     *)
(***************************************************************************)
VARIABLES state, ldms, last

comm_vars == <<state, ldms, last>>

(***************************************************************************)
(* State of one SchemaRegistryClient and of the request it is making.      *)
(*  urls   SchemaRegistryClient._urls                                      *)
(*  uidx   SchemaRegistryClient._uidx                                      *)
(*  reach  the URLs whose server can be reached at the moment              *)
(*  rq     where the call of _req is: n is its local n; first, tried and   *)
(*         stable are history (the index the call began with, the URLs it  *)
(*         has sent the request to, the URLs reachable since it began)     *)
(***************************************************************************)
VARIABLES urls, uidx, reach, rq

client_vars == <<urls, uidx, reach, rq>>

(***************************************************************************)
(* A call of one of the functions of the library that keep no state.       *)
(*  fn  the function called, its arguments and what it returned or raised  *)
(***************************************************************************)
VARIABLES fn

fn_vars == <<fn>>

vars == <<registry_vars, proxy_vars, comm_vars, client_vars, fn_vars>>

\* A __next_etcd_client that leaves the index where it is.
next_etcd_client_same_member(list, idx) ==
    [ etcd |-> list[idx + 1], etcd_idx |-> idx ]

\* EtcdProxy.__next_etcd_client: the client for the member at etcd_idx, and
\* the index advanced by one, modulo the length of the list.  Python indexes
\* the list from 0.
next_etcd_client(list, idx) ==
    [ etcd |-> list[idx + 1], etcd_idx |-> (idx + 1) % Len(list) ]

\* EtcdProxy.__init__: no client, the lock free, the index 0, then the first
\* client.
EtcdProxy_init(list) ==
    /\ etcd_list = list
    /\ etcd = next_etcd_client(list, 0).etcd
    /\ etcd_idx = next_etcd_client(list, 0).etcd_idx
    /\ lock = <<>>

Callers == {1, 2}

CallIdle ==
    [ pc |-> "idle", i |-> 0, tried |-> <<>>, stable |-> {},
      after_failure |-> FALSE, exc |-> <<>> ]

\* A proxy over one endpoint that answers, with no call in progress.
ProxyAtRest ==
    /\ EtcdProxy_init(<<"A">>)
    /\ up = {"A"}
    /\ calls = [c \in Callers |-> CallIdle]
    /\ all_failed = FALSE

\* Communicator.INIT, CONNECTED, CLOSED.
INIT == 1
CONNECTED == 2
CLOSED == 3

\* Python values carry their type: a str is a sequence of tokens, a float
\* is counted in halves.
Py(t, x) ==
    [ t |-> t,
      b |-> IF t = "bool" THEN x ELSE FALSE,
      n |-> IF t \in {"int", "float"} THEN x ELSE 0,
      s |-> IF t = "str" THEN x ELSE <<>> ]

PyNone == Py("NoneType", <<>>)

\* The arguments of a call, none given.
NoArgs ==
    [ name |-> PyNone, regex |-> PyNone, reconnect |-> PyNone,
      interval |-> PyNone, offset |-> PyNone, push |-> PyNone, auto |-> PyNone ]

\* What a method returns: a pair (errcode, body) or one value.  A response
\* of the daemon is a pair too.
Ret(kind, errcode, body) == [kind |-> kind, errcode |-> errcode, body |-> body]

NoCall ==
    [ op |-> None, args |-> NoArgs, before |-> [state |-> INIT, ldms |-> "new"],
      sent |-> <<>>, recv |-> None, failed |-> None, closed |-> 0,
      allocated |-> 0, ret |-> <<>>, exc |-> <<>> ]

\* Communicator.__init__: state INIT and a transport allocated, not yet
\* connected.
Communicator_init ==
    /\ state = INIT
    /\ ldms = "new"
    /\ last = NoCall

\* SchemaRegistry.auth, set by the constructor and read-only afterwards.
sr_auth == get_auth(auth_conf).val

\* Whether the configuration lists the pair a request carries.
Listed(cred) ==
    /\ auth_conf # <<>>
    /\ cred # <<>>
    /\ \E i \in 1..Len(auth_conf[1].users) :
         /\ auth_conf[1].users[i].username = cred[1]
         /\ auth_conf[1].users[i].password = cred[2]

Idle ==
    [ pc |-> "idle", op |-> None, known |-> FALSE, doc |-> <<>>, arg |-> <<>>,
      id |-> <<>>, name |-> <<>>, digest |-> <<>>, obj_json |-> <<>>,
      keys |-> <<>>, ids |-> <<>>, del_ids |-> <<>>, resp |-> <<>>,
      exc |-> <<>> ]

EmptyStore == [k \in {} |-> <<>>]

RegistryInit ==
    /\ kv = EmptyStore
    /\ auth_conf \in { c \in AuthConfs : get_auth(c).ok }
    /\ nservers \in {1, 2}
    /\ hs = [h \in Handlers |-> Idle]
    /\ nreq = 0
    /\ nfail = 0
    /\ touched = [h \in Handlers |-> FALSE]

\* A registry with no request in progress.
RegistryAtRest ==
    /\ kv = EmptyStore
    /\ auth_conf = <<>>
    /\ nservers = 1
    /\ hs = [h \in Handlers |-> Idle]
    /\ nreq = 0
    /\ nfail = 0
    /\ touched = [h \in Handlers |-> FALSE]

\* SchemaRegistryClient.__init__
SchemaRegistryClient_init(_urls) ==
    /\ urls = _urls
    /\ uidx = 0

ReqIdle ==
    [ pc |-> "idle", n |-> 0, first |-> 0, tried |-> <<>>, stable |-> {},
      exc |-> <<>> ]

\* A client of one server that can be reached, with no request in progress.
ClientAtRest ==
    /\ SchemaRegistryClient_init(<<"A">>)
    /\ reach = {"A"}
    /\ rq = ReqIdle

\* No function called yet.  A call holds the function, its arguments (a and
\* b are documents, arg and arg2 Python values, type a type string and kind
\* a ValueType) and its result: ok, the exception class, the value returned
\* (ret, emitted, back, again), the digests d0 and d1, and the store before
\* and after (kv0, kv1), and the descriptors added to an ldms.Schema (sch).
FnIdle ==
    [ f |-> "None", a |-> DocM, b |-> DocM, arg |-> PyNone, arg2 |-> PyNone,
      type |-> "None", kind |-> "None",
      ok |-> TRUE, exc |-> "None", ret |-> PyNone,
      emitted |-> "None", back |-> "None", again |-> "None",
      d0 |-> <<>>, d1 |-> <<>>, kv0 |-> EmptyStore, kv1 |-> EmptyStore,
      sch |-> <<>> ]

FnAtRest == fn = FnIdle

Init ==
    /\ RegistryInit
    /\ ProxyAtRest
    /\ Communicator_init
    /\ ClientAtRest
    /\ FnAtRest

\* The handler returns (or its exception is answered): the response is kept
\* until the client has it.
Return(me, r) ==
    [me EXCEPT !.pc = "done", !.resp = <<r>>, !.keys = <<>>, !.ids = <<>>,
               !.obj_json = <<>>]

\* The handler raises e: error_handler answers.  exc keeps what was raised.
Raise(me, e) == [Return(me, error_handler(e)) EXCEPT !.exc = <<e.exc, e.msg>>]

\* index_POST up to the first etcd call of add_schema.
index_POST(me) ==
    IF me.doc = <<>> THEN Return(me, text_500("Missing input JSON object"))
    ELSE LET s == Schema_from_dict(me.doc[1])
         IN  IF ~s.ok THEN Raise(me, s)
             ELSE LET l == add_schema_locals(s.val)
                  IN  IF ~l.ok THEN Raise(me, l)
                      ELSE [me EXCEPT !.pc = "add_object", !.id = l.val.id,
                                      !.name = l.val.name,
                                      !.digest = l.val.digest,
                                      !.obj_json = <<l.val.obj_json>>]

\* The start of delete_schema(_id) in a handler: its keys, or its exception.
delete_schema_start(me, id) ==
    LET ks == delete_schema_keys(id)
    IN  IF ~ks.ok THEN Raise(me, ks)
        ELSE [me EXCEPT !.pc = "delete", !.id = id, !.keys = ks.val]

\* str.lower() of a digest in a path.
LowerToken ==
    ( "A" :> "a" @@ "B" :> "b" @@ "C" :> "c" @@ "D" :> "d" @@ "E" :> "e"
   @@ "F" :> "f" @@ "M" :> "m" @@ "S" :> "s" @@ "U" :> "u" )

Lower(str) == [i \in 1..Len(str) |-> TblGet(LowerToken @@ [t \in {str[i]} |-> t], str[i])]

\* The handler the request is routed to, up to its first etcd call.
Dispatch(me) ==
    CASE me.op = "index_POST" -> index_POST(me)
      [] me.op = "schemas_ids_id_GET" ->
             [me EXCEPT !.pc = "get_schema", !.id = me.arg]
      [] me.op = "schemas_ids_id_DEL" -> delete_schema_start(me, me.arg)
      [] me.op = "names_GET" -> [me EXCEPT !.pc = "list_names"]
      [] me.op = "names_name_DEL" ->
             [me EXCEPT !.pc = "list_names", !.name = me.arg]
      [] me.op = "names_name_versions_GET" ->
             [me EXCEPT !.pc = "list_names", !.name = me.arg]
      [] me.op = "digests_GET" -> [me EXCEPT !.pc = "list_digests"]
      [] me.op = "digests_digest_versions_GET" ->
             [me EXCEPT !.pc = "list_digests", !.digest = Lower(me.arg)]

\* Where a handler is when its next step is an etcd call.
EtcdPcs ==
    { "add_object", "add_name", "add_digest", "get_schema", "delete",
      "list_names", "list_digests" }

\* The server a handler runs on.
Server(h) == IF nservers = 1 THEN 1 ELSE h

\* The handlers of a server are greenlets of one thread (gevent's
\* WSGIServer) and an etcd call blocks that thread: between its first etcd
\* call and its return a handler is the only one its server runs.  The
\* handlers of two servers interleave at their etcd calls.
ServerFree(h) ==
    \A g \in Handlers \ {h} : Server(g) = Server(h) => hs[g].pc \notin EtcdPcs

\* A request arrives: auth_check runs before the handler and answers in its
\* place when it refuses.
Receive(h) ==
    /\ hs[h].pc = "idle"
    /\ nreq < MaxRequests
    /\ ServerFree(h)
    /\ \E req \in Requests, cred \in Creds :
         LET me      == [Idle EXCEPT !.op = req.op, !.doc = req.doc,
                                     !.arg = req.arg, !.known = Listed(cred)]
             refused == auth_check(sr_auth, cred)
         IN  hs' = [hs EXCEPT ![h] = IF refused # <<>>
                                     THEN Return(me, refused[1])
                                     ELSE Dispatch(me)]
    /\ nreq' = nreq + 1
    /\ touched' = [touched EXCEPT ![h] = FALSE]
    /\ UNCHANGED <<kv, auth_conf, nservers, nfail, proxy_vars, comm_vars, client_vars, fn_vars>>

\* A write of add_schema by handler g of the keys of g's id: the deletes in
\* flight that it falls into.
Touch(g) ==
    [h \in Handlers |->
        \/ touched[h]
        \/ /\ h # g
           /\ hs[h].pc # "idle"
           /\ \/ hs[h].op = "names_name_DEL"
              \/ hs[h].op = "schemas_ids_id_DEL" /\ hs[h].arg = hs[g].id]

\* add_schema: put_if_not_exists of the object; return when it was there.
AddObject(h) ==
    /\ hs[h].pc = "add_object"
    /\ LET r == add_schema_object(kv, hs[h].id, hs[h].obj_json[1])
       IN  /\ kv' = r[2]
           /\ hs' = [hs EXCEPT ![h] =
                       IF r[1] THEN [@ EXCEPT !.pc = "add_name"]
                       ELSE Return(@, json_resp("id", @.id))]
           /\ touched' = IF r[1] THEN Touch(h) ELSE touched
    /\ UNCHANGED <<auth_conf, nservers, nreq, nfail, proxy_vars, comm_vars, client_vars, fn_vars>>

AddName(h) ==
    /\ hs[h].pc = "add_name"
    /\ kv' = add_schema_name(kv, hs[h].name, hs[h].id)
    /\ hs' = [hs EXCEPT ![h].pc = "add_digest"]
    /\ touched' = Touch(h)
    /\ UNCHANGED <<auth_conf, nservers, nreq, nfail, proxy_vars, comm_vars, client_vars, fn_vars>>

AddDigest(h) ==
    /\ hs[h].pc = "add_digest"
    /\ kv' = add_schema_digest(kv, hs[h].digest, hs[h].id)
    /\ hs' = [hs EXCEPT ![h] = Return(@, json_resp("id", @.id))]
    /\ touched' = Touch(h)
    /\ UNCHANGED <<auth_conf, nservers, nreq, nfail, proxy_vars, comm_vars, client_vars, fn_vars>>

\* schemas_ids_id_GET: get_schema, then as_json.
GetSchema(h) ==
    /\ hs[h].pc = "get_schema"
    /\ LET sch == get_schema(kv, hs[h].id)
           ret == IF sch.ok THEN Schema_as_dict(sch.val) ELSE sch
       IN  hs' = [hs EXCEPT ![h] =
                    IF ret.ok THEN Return(@, json_resp("schema", ret.val))
                    ELSE Raise(@, ret)]
    /\ UNCHANGED <<kv, auth_conf, nservers, nreq, nfail, touched, proxy_vars, comm_vars, client_vars, fn_vars>>

\* After the last key of an id is deleted: schemas_ids_id_DEL answers;
\* names_name_DEL appends the id and goes on with the next one.
AfterDelete(me) ==
    IF me.op = "schemas_ids_id_DEL"
    THEN Return(me, json_resp("list", <<me.id>>))
    ELSE LET done == [me EXCEPT !.del_ids = Append(@, me.id), !.ids = Tail(@)]
         IN  IF done.ids = <<>>
             THEN Return(done, json_resp("list", done.del_ids))
             ELSE delete_schema_start(done, Head(done.ids))

\* One etcd.delete of the loop of delete_schema.
Delete(h) ==
    /\ hs[h].pc = "delete"
    /\ kv' = etcd_delete(kv, Head(hs[h].keys))
    /\ hs' = [hs EXCEPT ![h] =
                LET me == [@ EXCEPT !.keys = Tail(@)]
                IN  IF me.keys = <<>> THEN AfterDelete(me) ELSE me]
    /\ UNCHANGED <<auth_conf, nservers, nreq, nfail, touched, proxy_vars, comm_vars, client_vars, fn_vars>>

\* The handlers that call list_names, after the call.
ListNames(h) ==
    /\ hs[h].pc = "list_names"
    /\ LET me   == hs[h]
           objs == list_names(kv, me.name)
           ids  == DictGet(objs, me.name, <<>>)
       IN  hs' = [hs EXCEPT ![h] =
             CASE me.op = "names_GET" ->
                    Return(me, json_resp("list", DictKeys(objs)))
               [] me.op = "names_name_versions_GET" ->
                    IF me.name \in DOMAIN objs
                    THEN Return(me, json_resp("list", objs[me.name]))
                    ELSE Return(me, json_resp("null", None))
               [] me.op = "names_name_DEL" ->
                    IF ids = <<>> THEN Return(me, json_resp("list", <<>>))
                    ELSE delete_schema_start([me EXCEPT !.ids = ids], Head(ids))]
    /\ UNCHANGED <<kv, auth_conf, nservers, nreq, nfail, touched, proxy_vars, comm_vars, client_vars, fn_vars>>

\* The handlers that call list_digests, after the call.
ListDigests(h) ==
    /\ hs[h].pc = "list_digests"
    /\ LET me   == hs[h]
           objs == list_digests(kv, me.digest)
       IN  hs' = [hs EXCEPT ![h] =
             IF me.op = "digests_GET"
             THEN Return(me, json_resp("list", DictKeys(objs)))
             ELSE IF me.digest \in DOMAIN objs
             THEN Return(me, json_resp("list", objs[me.digest]))
             ELSE Return(me, json_resp("null", None))]
    /\ UNCHANGED <<kv, auth_conf, nservers, nreq, nfail, touched, proxy_vars, comm_vars, client_vars, fn_vars>>

\* The etcd call a handler is about to make fails on every endpoint: the
\* proxy raises, nothing is written, and the exception ends the handler.
EtcdFails(h) ==
    /\ hs[h].pc \in EtcdPcs
    /\ nfail < MaxFailures
    /\ hs' = [hs EXCEPT ![h] =
                Raise(@, Err("RuntimeError", "No active exception to reraise"))]
    /\ nfail' = nfail + 1
    /\ UNCHANGED <<kv, auth_conf, nservers, nreq, touched, proxy_vars, comm_vars, client_vars, fn_vars>>

\* The client has the response.
Finish(h) ==
    /\ hs[h].pc = "done"
    /\ hs' = [hs EXCEPT ![h] = Idle]
    /\ touched' = [touched EXCEPT ![h] = FALSE]
    /\ UNCHANGED <<kv, auth_conf, nservers, nreq, nfail, proxy_vars, comm_vars, client_vars, fn_vars>>

Next ==
    \E h \in Handlers :
        \/ Receive(h)
        \/ AddObject(h)
        \/ AddName(h)
        \/ AddDigest(h)
        \/ GetSchema(h)
        \/ Delete(h)
        \/ ListNames(h)
        \/ ListDigests(h)
        \/ EtcdFails(h)
        \/ Finish(h)

Spec == Init /\ [][Next]_vars

(***************************************************************************)
(* Properties.                                                             *)
(***************************************************************************)
InSeq(seq, x) == \E i \in 1..Len(seq) : seq[i] = x

CountIn(seq, x) == Cardinality({ i \in 1..Len(seq) : seq[i] = x })

\* Occurrences of x in all the lists of a dict.
CountInDict(d, x) ==
    Cardinality({ p \in UNION { { <<g, i>> : i \in 1..Len(d[g]) } : g \in DOMAIN d } :
                    d[p[1]][p[2]] = x })

\* A string a path segment of a URL can carry.
Routable(str) == \A i \in 1..Len(str) : str[i] # SL

\* The step in which handler h answers a POST / with the id.
PostReturns(h) ==
    /\ hs[h].pc # "done"
    /\ hs'[h].pc = "done"
    /\ hs'[h].op = "index_POST"
    /\ hs'[h].resp[1].status = 200

PostReturned(h) ==
    /\ hs[h].pc = "done"
    /\ hs[h].op = "index_POST"
    /\ hs[h].resp[1].status = 200

\* What GET /schemas/ids/<id>, GET /names/<name>/versions and
\* GET /digests/<digest>/versions see of an id.
Visible(store, name, digest, id) ==
    /\ get_schema(store, id).ok
    /\ InSeq(DictGet(list_names(store, name), name, <<>>), id)
    /\ InSeq(DictGet(list_digests(store, digest), digest, <<>>), id)

\* The three keys of an id are in the store.
Registered(store, name, digest, id) ==
    /\ obj_key(id) \in DOMAIN store
    /\ name_key(name, id) \in DOMAIN store
    /\ digest_key(digest, id) \in DOMAIN store

\* C1: once a POST / of a schema has returned its id, a GET sees the id
\* under /schemas/ids/<id>, under /names/<name>/versions and under
\* /digests/<digest>/versions, whatever other requests its server handles.
\* Stated at the step of the return, for one server and the names a URL can
\* carry.
C1_PostedSchemaVisible ==
    [][\A h \in Handlers :
         nservers = 1 /\ PostReturns(h) /\ Routable(hs'[h].name)
           => Visible(kv', hs'[h].name, hs'[h].digest, hs'[h].id)]_vars

\* C2: an add that completes without error after an earlier add of the same
\* schema wrote the object and then failed leaves the object, the name-index
\* entry and the digest-index entry of the id in the store.  Stated for an
\* add that finds the object present while no other request is in flight.
C2_SecondAddRepairsIndexes ==
    [][\A h \in Handlers :
         /\ hs[h].pc = "add_object"
         /\ PostReturns(h)
         /\ \A g \in Handlers \ {h} : hs[g].pc = "idle"
         => Registered(kv', hs'[h].name, hs'[h].digest, hs'[h].id)]_vars

\* C3: a second add of a schema whose first add registered it returns the
\* id the first add stored it under, changes nothing in the store, and
\* list_names(name) holds that id exactly once.
C3_SecondAddIdempotent ==
    [][\A h \in Handlers :
         /\ hs[h].pc = "add_object"
         /\ PostReturns(h)
         /\ Registered(kv, hs[h].name, hs[h].digest, hs[h].id)
         => /\ kv' = kv
            /\ hs'[h].resp[1].val = hs[h].id
            /\ hs[h].id = DocId(hs[h].doc[1])
            /\ CountInDict(list_names(kv', hs[h].name), hs[h].id) = 1
            /\ Routable(hs[h].name) =>
                 CountIn(DictGet(list_names(kv', hs[h].name), hs[h].name, <<>>),
                         hs[h].id) = 1]_vars

\* Two adds of one schema have both returned its id and the id is registered.
C3_Witness ==
    \E h, g \in Handlers :
        /\ h # g
        /\ PostReturned(h)
        /\ PostReturned(g)
        /\ hs[h].id = hs[g].id
        /\ hs[h].doc = hs[g].doc
        /\ Registered(kv, hs[h].name, hs[h].digest, hs[h].id)

\* The kind of a field of a schema document.
Kind(f) ==
    IF f.type = "array" THEN TblGet(ARRAY_TBL, f.items)
    ELSE TblGet(STR_TYPE_TBL, f.type)

FieldEquivalent(f, g) ==
    /\ f.name = g.name
    /\ Kind(f) = Kind(g)
    /\ f.units = g.units
    /\ Truthy(f.is_meta) = Truthy(g.is_meta)
    /\ f.type = "array" => GetOr(f.len, -1) = GetOr(g.len, -1)

\* Two schema documents: the same name and, field by field, the same name,
\* kind, units, is_meta and array length.
Equivalent(a, b) ==
    /\ a.name = b.name
    /\ Len(a.fields) = Len(b.fields)
    /\ \A i \in 1..Len(a.fields) : FieldEquivalent(a.fields[i], b.fields[i])

\* The body GET /schemas/ids/<id> answers with.
GetResponse(store, id) ==
    LET sch == get_schema(store, id)
    IN  IF sch.ok THEN Schema_as_dict(sch.val) ELSE sch

\* C4: after a POST / of a schema has returned its id, GET /schemas/ids/<id>
\* answers with a schema equivalent to the posted one.
C4_GetReturnsPosted ==
    [][\A h \in Handlers :
         PostReturns(h) /\ Routable(hs'[h].id)
           => LET r == GetResponse(kv', hs'[h].id)
              IN  r.ok /\ Equivalent(hs'[h].doc[1], r.val.schema)]_vars

IsObjectKey(k) == StartsWith(k, OBJECTS_PREFIX \o <<SL>>)

\* C5: the body under an object key is the one the add that created the key
\* wrote: no later step changes it, and only a delete removes the key.
C5_ObjectsImmutable ==
    [][/\ \A k \in DOMAIN kv :
            IsObjectKey(k) =>
              IF k \in DOMAIN kv' THEN kv'[k] = kv[k]
              ELSE \E h \in Handlers :
                      hs[h].pc = "delete" /\ Head(hs[h].keys) = k
       /\ \A k \in DOMAIN kv' \ DOMAIN kv :
            IsObjectKey(k) =>
              \E h \in Handlers : /\ hs[h].pc = "add_object"
                                  /\ k = obj_key(hs[h].id)
                                  /\ kv'[k] = hs[h].obj_json[1]]_vars

\* An add of a schema has returned the id of an object whose stored body is
\* not the body of the schema added.
C5_Witness ==
    \E h \in Handlers :
        /\ PostReturned(h)
        /\ obj_key(hs[h].id) \in DOMAIN kv
        /\ kv[obj_key(hs[h].id)]
             # Schema_as_dict(Schema_from_dict(hs[h].doc[1]).val).val

\* The documents the codec and add_schema accept.
Accepted ==
    { d \in Docs : /\ Schema_from_dict(d).ok
                   /\ add_schema_locals(Schema_from_dict(d).val).ok }

\* The three keys add_schema writes for a document.
AddKeys(d) ==
    LET l == add_schema_locals(Schema_from_dict(d).val).val
    IN  { obj_key(l.id), name_key(l.name, l.id), digest_key(l.digest, l.id) }

SeqRange(seq) == { seq[i] : i \in 1..Len(seq) }

DeleteReturned(h) ==
    /\ hs[h].pc = "done"
    /\ hs[h].op = "schemas_ids_id_DEL"
    /\ hs[h].resp[1].status = 200

\* C6: after delete(id) has completed, with no add of that id in between,
\* get(id) fails with "Schema not found", the id is in no list of list_names
\* or list_digests, and the keys deleted are the three keys add wrote for
\* the id, none of which is left; also for a schema name that holds a '-'.
C6_DeleteRemovesSchema ==
    \A h \in Handlers :
        DeleteReturned(h) /\ ~touched[h] =>
          LET id == hs[h].arg
          IN  /\ get_schema(kv, id) = Err("ValueError", "Schema not found")
              /\ CountInDict(list_names(kv, <<>>), id) = 0
              /\ CountInDict(list_digests(kv, <<>>), id) = 0
              /\ hs[h].resp[1].val = <<id>>
              /\ \A d \in Accepted :
                   DocId(d) = id =>
                     /\ SeqRange(delete_schema_keys(id).val) = AddKeys(d)
                     /\ AddKeys(d) \cap DOMAIN kv = {}

\* The schema whose name holds a '-' was added by one handler and then
\* deleted by id by the other.
C6_Witness ==
    \E h, g \in Handlers :
        /\ DeleteReturned(h)
        /\ ~touched[h]
        /\ hs[h].arg = DocId(DocDash)
        /\ PostReturned(g)
        /\ hs[g].id = DocId(DocDash)
        /\ hs[g].doc = <<DocDash>>
        /\ AddKeys(DocDash) \cap DOMAIN kv = {}

NameDeleteReturned(h) ==
    /\ hs[h].pc = "done"
    /\ hs[h].op = "names_name_DEL"
    /\ hs[h].resp[1].status = 200

\* C7: DELETE /names/<name> deletes the ids indexed under the name and
\* returns them; afterwards GET /names does not hold the name; and no step
\* of it removes or changes a key of a schema registered under another name.
C7_DeleteNameOnlyThatName ==
    /\ [](\A h \in Handlers :
            NameDeleteReturned(h) /\ ~touched[h] =>
              /\ ~InSeq(DictKeys(list_names(kv, <<>>)), hs[h].arg)
              /\ \A i \in 1..Len(hs[h].resp[1].val) :
                   /\ obj_key(hs[h].resp[1].val[i]) \notin DOMAIN kv
                   /\ CountInDict(list_names(kv, <<>>), hs[h].resp[1].val[i]) = 0)
    /\ [][\A h \in Handlers :
            /\ hs[h].op = "names_name_DEL"
            /\ hs[h].pc = "delete"
            /\ hs'[h] # hs[h]
            => \A d \in Accepted :
                 d.name # hs[h].arg =>
                   \A k \in AddKeys(d) \cap DOMAIN kv :
                      k \in DOMAIN kv' /\ kv'[k] = kv[k]]_vars

Refused(h) == hs[h].pc = "done" /\ hs[h].resp[1].status = 401

\* C8: with authentication configured, a request without credentials or
\* with a pair the configuration does not list is answered 401, its handler
\* never runs and the store is unchanged; a request with a listed pair
\* reaches its handler; without authentication every request does.
C8_AuthGate ==
    /\ [](\A h \in Handlers :
            hs[h].pc # "idle" =>
              IF auth_conf # <<>> /\ ~hs[h].known
              THEN /\ Refused(h)
                   /\ hs[h] = Return([Idle EXCEPT !.op = hs[h].op,
                                                   !.doc = hs[h].doc,
                                                   !.arg = hs[h].arg],
                                     hs[h].resp[1])
              ELSE ~Refused(h))
    /\ [][\A h \in Handlers :
            hs'[h].pc = "done" /\ hs'[h].resp[1].status = 401 /\ hs'[h] # hs[h]
              => hs[h].pc = "idle" /\ kv' = kv]_vars

\* With authentication configured, one request was refused and one with a
\* listed pair was answered by its handler.
C8_Witness ==
    /\ auth_conf # <<>>
    /\ \E h, g \in Handlers :
         /\ Refused(h)
         /\ hs[g].known
         /\ hs[g].pc = "done"
         /\ hs[g].resp[1].status = 200

\* C9: each error has its status: a schema id that is not stored 404, an
\* unreachable backend 503, any other exception (a bad schema, an invalid
\* argument) 500 with its message, an authentication failure 401.
C9_ErrorStatus ==
    \A h \in Handlers :
        hs[h].pc = "done" =>
          LET r == hs[h].resp[1]
              e == hs[h].exc
          IN  /\ e = <<"ValueError", "Schema not found">> => r.status = 404
              /\ e = <<"RuntimeError", "No active exception to reraise">>
                   => r.status = 503
              /\ /\ e # <<>>
                 /\ e # <<"ValueError", "Schema not found">>
                 /\ e # <<"RuntimeError", "No active exception to reraise">>
                 => r.status = 500 /\ r.val = e[2]
              /\ auth_conf # <<>> /\ ~hs[h].known => r.status = 401

\* A document with a record array whose record_type names no record field
\* before it.
Dangling(doc) ==
    \E i \in 1..Len(doc.fields) :
        /\ doc.fields[i].type = "array"
        /\ doc.fields[i].items \in {"record", "record[]"}
        /\ ~ \E j \in 1..(i - 1) :
               /\ doc.fields[j].type = "record"
               /\ doc.fields[i].record_type = <<doc.fields[j].name>>

\* C10: a POST of a schema with a record array whose record_type names no
\* earlier record field is answered 500 by the load, and writes nothing.
C10_DanglingRejected ==
    \A h \in Handlers :
        /\ hs[h].pc # "idle"
        /\ hs[h].op = "index_POST"
        /\ hs[h].doc # <<>>
        /\ Dangling(hs[h].doc[1])
        /\ ~Refused(h)
        => /\ hs[h].pc = "done"
           /\ hs[h].resp[1].status = 500
           /\ hs[h].id = <<>>


(***************************************************************************)
(* EtcdProxy: the calls that go through __proxy_fn_wrap.                   *)
(***************************************************************************)
MaxEndpoints == 2

EtcdLists == { SubSeq(<<"A", "B", "C", "D", "E">>, 1, n) : n \in 1..MaxEndpoints }

Endpoints == { etcd_list[i] : i \in 1..Len(etcd_list) }

\* A loop that takes one turn more.
proxy_after_failure_once_more(i, n) == IF i + 1 < n + 1 THEN "try" ELSE "raised"

\* The loop of _proxy: for i in range(0, n), with its else branch when the
\* range is used up.
proxy_after_failure(i, n) == IF i + 1 < n THEN "try" ELSE "raised"

\* A _proxy that does not wait for the lock.
Acquire_without_waiting(c) ==
    /\ calls[c].pc = "idle"
    /\ lock' = <<c>>
    /\ calls' = [calls EXCEPT ![c] =
                   [ pc |-> "try", i |-> 0, tried |-> <<>>, stable |-> up,
                     after_failure |-> all_failed, exc |-> <<>> ]]
    /\ UNCHANGED <<etcd_list, etcd, etcd_idx, up, all_failed>>
    /\ UNCHANGED <<registry_vars, comm_vars, client_vars, fn_vars>>

\* _proxy is entered and takes the lock.
Acquire(c) ==
    /\ calls[c].pc = "idle"
    /\ lock = <<>>
    /\ lock' = <<c>>
    /\ calls' = [calls EXCEPT ![c] =
                   [ pc |-> "try", i |-> 0, tried |-> <<>>, stable |-> up,
                     after_failure |-> all_failed, exc |-> <<>> ]]
    /\ UNCHANGED <<etcd_list, etcd, etcd_idx, up, all_failed>>
    /\ UNCHANGED <<registry_vars, comm_vars, client_vars, fn_vars>>

\* One turn of the loop: the wrapped call on the current client.  An endpoint
\* that is up answers: the lock is released and the value returned.  One that
\* is down raises Etcd3Exception: the next client is opened, and when the
\* range is used up the lock is released and the bare raise, with no
\* exception active, raises RuntimeError.
Attempt(c) ==
    /\ calls[c].pc = "try"
    /\ lock = <<c>>
    /\ IF etcd \in up
       THEN /\ calls' = [calls EXCEPT ![c].pc = "returned",
                                      ![c].tried = Append(@, etcd)]
            /\ lock' = <<>>
            /\ UNCHANGED <<etcd, etcd_idx, all_failed>>
       ELSE LET nx == next_etcd_client(etcd_list, etcd_idx)
                pc == proxy_after_failure(calls[c].i, Len(etcd_list))
            IN  /\ etcd' = nx.etcd
                /\ etcd_idx' = nx.etcd_idx
                /\ calls' = [calls EXCEPT
                      ![c].pc = pc,
                      ![c].i = @ + 1,
                      ![c].tried = Append(@, etcd),
                      ![c].exc = IF pc = "raised"
                                 THEN <<"RuntimeError",
                                        "No active exception to reraise">>
                                 ELSE <<>>]
                /\ lock' = IF pc = "raised" THEN <<>> ELSE lock
                /\ all_failed' = (all_failed \/ pc = "raised")
    /\ UNCHANGED <<etcd_list, up>>
    /\ UNCHANGED <<registry_vars, comm_vars, client_vars, fn_vars>>

\* An except branch that raises again without releasing the lock.
OtherException_keeps_lock(c) ==
    /\ calls[c].pc = "try"
    /\ lock = <<c>>
    /\ calls' = [calls EXCEPT ![c].pc = "raised",
                              ![c].tried = Append(@, etcd),
                              ![c].exc = <<"Exception", "">>]
    /\ UNCHANGED <<etcd_list, etcd, etcd_idx, lock, up, all_failed>>
    /\ UNCHANGED <<registry_vars, comm_vars, client_vars, fn_vars>>

\* The wrapped call raises an exception that is not an Etcd3Exception: the
\* lock is released and the exception raised again.
OtherException(c) ==
    /\ calls[c].pc = "try"
    /\ lock = <<c>>
    /\ calls' = [calls EXCEPT ![c].pc = "raised",
                              ![c].tried = Append(@, etcd),
                              ![c].exc = <<"Exception", "">>]
    /\ lock' = <<>>
    /\ UNCHANGED <<etcd_list, etcd, etcd_idx, up, all_failed>>
    /\ UNCHANGED <<registry_vars, comm_vars, client_vars, fn_vars>>

\* The caller has the value or the exception.
CallDone(c) ==
    /\ calls[c].pc \in {"returned", "raised"}
    /\ calls' = [calls EXCEPT ![c] = CallIdle]
    /\ UNCHANGED <<etcd_list, etcd, etcd_idx, lock, up, all_failed>>
    /\ UNCHANGED <<registry_vars, comm_vars, client_vars, fn_vars>>

\* An endpoint goes down or comes up.
EndpointChanges(e) ==
    /\ up' = IF e \in up THEN up \ {e} ELSE up \cup {e}
    /\ calls' = [c \in Callers |->
                   IF calls[c].pc = "try"
                   THEN [calls[c] EXCEPT !.stable = @ \cap up']
                   ELSE calls[c]]
    /\ UNCHANGED <<etcd_list, etcd, etcd_idx, lock, all_failed>>
    /\ UNCHANGED <<registry_vars, comm_vars, client_vars, fn_vars>>

ProxyInit ==
    /\ RegistryAtRest
    /\ Communicator_init
    /\ ClientAtRest
    /\ FnAtRest
    /\ \E list \in EtcdLists : EtcdProxy_init(list)
    /\ up \in SUBSET Endpoints
    /\ calls = [c \in Callers |-> CallIdle]
    /\ all_failed = FALSE

ProxyNext ==
    \/ \E c \in Callers :
        \/ Acquire(c)
        \/ Attempt(c)
        \/ OtherException(c)
        \/ CallDone(c)
    \/ \E e \in Endpoints : EndpointChanges(e)

ProxySpec == ProxyInit /\ [][ProxyNext]_vars

\* The endpoint that follows e in the list, modulo its length.
IndexOf(list, e) == CHOOSE i \in 1..Len(list) : list[i] = e

Following(list, e) == list[(IndexOf(list, e) % Len(list)) + 1]

AllFailed(c) ==
    /\ calls[c].pc = "raised"
    /\ calls[c].exc # <<>>
    /\ calls[c].exc[1] = "RuntimeError"

\* C11: a proxied call tries the endpoints in list order, modulo the length
\* of the list, starting from the current client's and each at most once;
\* when an endpoint was up from the call's start to its end the call does not
\* end because every endpoint failed; and at the step that returns the value
\* the current client is the endpoint that was tried last, the one that
\* served the call.
C11_Failover ==
    /\ [](\A c \in Callers :
            LET t == calls[c].tried IN
              /\ Len(t) <= Len(etcd_list)
              /\ \A k \in 1..Len(t) : \A j \in 1..Len(t) :
                     t[k] = t[j] => k = j
              /\ \A k \in 1..(Len(t) - 1) : t[k + 1] = Following(etcd_list, t[k])
              /\ (AllFailed(c) => calls[c].stable = {}))
    /\ [][\A c \in Callers :
            /\ (calls[c].pc = "idle" /\ calls'[c].pc = "try"
                  => calls'[c].tried = <<>>)
            /\ (calls[c].pc = "try" /\ calls[c].tried = <<>>
                  /\ calls'[c].tried # <<>>
                  => calls'[c].tried[1] = etcd)
            /\ (calls[c].pc = "try" /\ calls'[c].pc = "returned"
                  => /\ etcd' = calls'[c].tried[Len(calls'[c].tried)]
                     /\ etcd' \in up)]_vars

\* A call has returned a value served by the second endpoint it tried, after
\* the first one failed.
C11_Witness ==
    \E c \in Callers :
        /\ calls[c].pc = "returned"
        /\ Len(calls[c].tried) = 2
        /\ calls[c].tried = <<"A", "B">>
        /\ etcd = "B"

bool(x) ==
    CASE x.t = "NoneType" -> FALSE
      [] x.t = "bool" -> x.b
      [] x.t \in {"int", "float"} -> x.n # 0
      [] x.t = "str" -> x.s # <<>>

RECURSIVE DecStr(_)

\* The decimal digits of a natural number.
DecStr(n) ==
    LET digit == <<"0", "1", "2", "3", "4", "5", "6", "7", "8", "9">>
    IN  IF n < 10 THEN <<digit[n + 1]>>
        ELSE Append(DecStr(n \div 10), digit[(n % 10) + 1])

\* str(x)
str(x) ==
    CASE x.t = "NoneType" -> Py("str", <<"None">>)
      [] x.t = "bool" -> Py("str", IF x.b THEN <<"True">> ELSE <<"False">>)
      [] x.t = "int" -> Py("str", DecStr(x.n))
      [] x.t = "float" ->
             Py("str", DecStr(x.n \div 2) \o <<".">> \o DecStr((x.n % 2) * 5))
      [] x.t = "str" -> x

\* maestro_util.cvt_intrvl_str_to_us: an int is returned as it is; a str is
\* lowered, the first of us, ms, s, m that it holds is its unit, the second
\* piece of the split by the unit must be empty, and the number that the
\* first piece writes is multiplied by the unit's factor.
cvt_intrvl_str_to_us(interval_s) ==
    LET error == Err("ValueError", "is not a valid time-interval string")
        \* s.find(sub), from 1; 0 when s does not hold sub
        find(s, sub) ==
            LET at == { i \in 1..(Len(s) - Len(sub) + 1) :
                          SubSeq(s, i, i + Len(sub) - 1) = sub }
            IN  IF at = {} THEN 0 ELSE CHOOSE i \in at : \A j \in at : i <= j
        \* s.split(sub)[0] and s.split(sub)[1]
        split0(s, sub) == SubSeq(s, 1, find(s, sub) - 1)
        split1(s, sub) ==
            LET rest == SubSeq(s, find(s, sub) + Len(sub), Len(s))
            IN  IF find(rest, sub) = 0 THEN rest
                ELSE SubSeq(rest, 1, find(rest, sub) - 1)
        isdigits(ds) ==
            \A i \in 1..Len(ds) : \E d \in 0..9 : DecStr(d) = <<ds[i]>>
        RECURSIVE value(_, _)
        value(ds, acc) ==
            IF ds = <<>> THEN acc
            ELSE value(Tail(ds),
                       acc * 10 + (CHOOSE d \in 0..9 : DecStr(d) = <<ds[1]>>))
        \* int(float(ival_s) * factor)
        times(ival_s, factor) ==
            LET dot == find(ival_s, <<".">>)
                whole == IF dot = 0 THEN ival_s ELSE SubSeq(ival_s, 1, dot - 1)
                frac == IF dot = 0 THEN <<>>
                        ELSE SubSeq(ival_s, dot + 1, Len(ival_s))
            IN  IF (whole = <<>> /\ frac = <<>>) \/ ~isdigits(whole)
                   \/ ~isdigits(frac)
                THEN error
                ELSE Ok(value(whole, 0) * factor
                        + (value(frac, 0) * factor) \div (10 ^ Len(frac)))
        units == << [u |-> <<"u", "s">>, factor |-> 1],
                    [u |-> <<"m", "s">>, factor |-> 1000],
                    [u |-> <<"s">>, factor |-> 1000000],
                    [u |-> <<"m">>, factor |-> 60000000] >>
    IN  IF interval_s.t = "int" THEN Ok(interval_s.n)
        ELSE IF interval_s.t # "str" THEN error
        ELSE LET low == Lower(interval_s.s)
                 found == { k \in 1..Len(units) : find(low, units[k].u) # 0 }
             IN  IF found = {} THEN error
                 ELSE LET k == CHOOSE k \in found : \A j \in found : k <= j
                      IN  IF split1(low, units[k].u) # <<>> THEN error
                          ELSE times(split0(low, units[k].u), units[k].factor)

\* maestro_util.check_offset: for an offset that is true, offset_us /
\* interval_us > .5 is tested (the division raises for the interval 0; the
\* quotient of two ints is above one half when twice the offset is above a
\* positive interval, or below a negative one) and the offset becomes
\* interval_us / 2, a float; an offset that is None or 0 becomes 0.
check_offset(interval_us, offset_us) ==
    IF bool(offset_us)
    THEN IF interval_us.n = 0
         THEN Err("ZeroDivisionError", "division by zero")
         ELSE IF \/ interval_us.n > 0 /\ 2 * offset_us.n > interval_us.n
                 \/ interval_us.n < 0 /\ 2 * offset_us.n < interval_us.n
         THEN Ok(Py("float", interval_us.n))
         ELSE Ok(offset_us)
    ELSE Ok(Py("int", 0))

\* maestro.maestro_util.check_intrvl_str: an int or a float is returned as
\* it is; a str is lowered, the first of the keys of unit_strs (ms, us, m, s,
\* h, d, in that order) that it holds is its unit, the second piece of the
\* split by the unit must be empty, and the number that the first piece
\* writes is multiplied by the unit's factor; a str that holds no unit is
\* handed to int() as it is.  A factor is held as the pair of its quotient
\* and remainder by 10^6.
check_intrvl_str(interval_s) ==
    LET error == Err("ValueError", "is not a valid time-interval string")
        find(s, sub) ==
            LET at == { i \in 1..(Len(s) - Len(sub) + 1) :
                          SubSeq(s, i, i + Len(sub) - 1) = sub }
            IN  IF at = {} THEN 0 ELSE CHOOSE i \in at : \A j \in at : i <= j
        split0(s, sub) == SubSeq(s, 1, find(s, sub) - 1)
        split1(s, sub) ==
            LET rest == SubSeq(s, find(s, sub) + Len(sub), Len(s))
            IN  IF find(rest, sub) = 0 THEN rest
                ELSE SubSeq(rest, 1, find(rest, sub) - 1)
        isdigits(ds) ==
            \A i \in 1..Len(ds) : \E d \in 0..9 : DecStr(d) = <<ds[i]>>
        RECURSIVE value(_, _)
        value(ds, acc) ==
            IF ds = <<>> THEN acc
            ELSE value(Tail(ds),
                       acc * 10 + (CHOOSE d \in 0..9 : DecStr(d) = <<ds[1]>>))
        \* int(float(ival_s) * unit_strs[unit])
        times(ival_s, unit) ==
            LET dot == find(ival_s, <<".">>)
                whole == IF dot = 0 THEN ival_s ELSE SubSeq(ival_s, 1, dot - 1)
                frac == IF dot = 0 THEN <<>>
                        ELSE SubSeq(ival_s, dot + 1, Len(ival_s))
                e == 10 ^ Len(frac)
            IN  IF (whole = <<>> /\ frac = <<>>) \/ ~isdigits(whole)
                   \/ ~isdigits(frac)
                THEN error
                ELSE Ok(Py("int",
                        value(whole, 0) * unit.mega * 1000000
                        + value(whole, 0) * unit.rest
                        + ((value(frac, 0) * unit.mega) \div e) * 1000000
                        + (((value(frac, 0) * unit.mega) % e) * 1000000
                             + value(frac, 0) * unit.rest) \div e))
        unit_strs == << [u |-> <<"m", "s">>, mega |-> 0, rest |-> 1000],
                        [u |-> <<"u", "s">>, mega |-> 0, rest |-> 1],
                        [u |-> <<"m">>, mega |-> 60, rest |-> 0],
                        [u |-> <<"s">>, mega |-> 1, rest |-> 0],
                        [u |-> <<"h">>, mega |-> 3600, rest |-> 0],
                        [u |-> <<"d">>, mega |-> 86400, rest |-> 0] >>
    IN  IF interval_s.t \in {"int", "float"} THEN Ok(interval_s)
        ELSE IF interval_s.t # "str" THEN error
        ELSE LET low == Lower(interval_s.s)
                 found == { k \in 1..Len(unit_strs) : find(low, unit_strs[k].u) # 0 }
             IN  IF found = {}
                 THEN IF low # <<>> /\ isdigits(low)
                      THEN Ok(Py("int", value(low, 0)))
                      ELSE Err("ValueError", "invalid literal for int()")
                 ELSE LET k == CHOOSE k \in found : \A j \in found : k <= j
                      IN  IF split1(low, unit_strs[k].u) # <<>> THEN error
                          ELSE times(split0(low, unit_strs[k].u), unit_strs[k])

\* errno.ENOTCONN and errno.EINVAL.
ENOTCONN == 107
EINVAL == 22

\* LDMSD_Req_Attr(attr_id, value) and LDMSD_Request(command_id, attrs); a
\* request made with attrs=None carries no attribute.
LDMSD_Req_Attr(attr_id, value) == [attr_id |-> attr_id, value |-> value]

LDMSD_Request(command_id, attrs) == [command_id |-> command_id, attrs |-> attrs]

\* The session as a method finds it, with what the method did so far:
\*  sent      the requests handed to the transport's send, each with the
\*            state of the session and the status of the transport then
\*  recv      how the transport's recv ended
\*  failed    whether the send or the receive of a request raised
\*  closed    transports closed
\*  allocated transports allocated
Session ==
    [ state |-> state, ldms |-> ldms, sent |-> <<>>, recv |-> None,
      failed |-> None, closed |-> 0, allocated |-> 0 ]

\* What the peer and the network do during one method: whether a connect
\* succeeds, whether a send succeeds, how a recv ends and the reply it
\* gives.  Each kind of method meets the outcomes that it can tell apart.
Envs(k) ==
    LET quiet == [ connect |-> FALSE, send |-> FALSE, recv |-> "timeout",
                   reply |-> Ret("pair", 0, PyNone) ]
        replies == { Ret("pair", e, m) :
                       e \in {0, EINVAL},
                       m \in { PyNone, Py("str", <<"[]">>),
                               Py("str", <<"unknown">>) } }
        received ==
            { [quiet EXCEPT !.send = TRUE, !.recv = r] : r \in {"timeout", "error"} }
          \cup
            { [quiet EXCEPT !.send = TRUE, !.recv = "reply", !.reply = r] :
                r \in replies }
    IN  CASE k = "connect" -> { [quiet EXCEPT !.connect = c] : c \in BOOLEAN }
          [] k = "send" -> { [quiet EXCEPT !.send = c] : c \in BOOLEAN }
          [] k = "recv" -> received
          [] k = "exchange" -> {quiet} \cup received

\* A receive_response that raises without closing.
receive_response_no_close(s, env) ==
    IF s.state # CONNECTED
    THEN [s |-> s, r |-> Err("RuntimeError", "Transport is not connected.")]
    ELSE IF env.recv = "reply"
    THEN [s |-> [s EXCEPT !.recv = "reply"], r |-> Ok(env.reply)]
    ELSE [s |-> [s EXCEPT !.recv = env.recv],
          r |-> Err("ConnectionError", env.recv)]

\* A send_command that does not look at the state.
send_command_any_state(s, cmd, env) ==
    IF s.ldms = None
    THEN [s |-> s, r |-> Err("AttributeError", "send")]
    ELSE [s |-> [s EXCEPT !.sent = Append(@,
                    [cmd |-> cmd, state |-> s.state, ldms |-> s.ldms])],
          r |-> IF s.ldms = "connected" /\ env.send
                THEN Ok(Ret("value", 0, PyNone))
                ELSE Err("Exception", "send")]

\* A reconnect that does not close the transport it holds.
reconnect_no_close(s, env) ==
    LET s2 == [s EXCEPT !.ldms = "new", !.allocated = @ + 1]
    IN  IF env.connect
        THEN [s |-> [s2 EXCEPT !.state = CONNECTED, !.ldms = "connected"],
              r |-> Ok(Ret("value", 0, Py("bool", TRUE)))]
        ELSE [s |-> s2, r |-> Ok(Ret("value", 0, Py("bool", FALSE)))]

\* Communicator.close
close(s) ==
    [s EXCEPT !.state = CLOSED,
              !.ldms = None,
              !.closed = IF s.ldms # None THEN @ + 1 ELSE @]

\* Communicator.connect: False when the transport's connect raises (also
\* when there is no transport), else state CONNECTED and True.
connect(s, env) ==
    IF s.ldms # None /\ env.connect
    THEN [s |-> [s EXCEPT !.state = CONNECTED, !.ldms = "connected"],
          r |-> Ok(Ret("value", 0, Py("bool", TRUE)))]
    ELSE [s |-> s, r |-> Ok(Ret("value", 0, Py("bool", FALSE)))]

\* Communicator.reconnect
reconnect(s, env) ==
    LET s1 == IF s.ldms # None THEN close(s) ELSE s
        s2 == [s1 EXCEPT !.ldms = "new", !.allocated = @ + 1]
    IN  connect(s2, env)

\* Communicator.send_command
send_command(s, cmd, env) ==
    IF s.state # CONNECTED
    THEN [s |-> s, r |-> Err("ConnectionError", "Transport is not connected.")]
    ELSE [s |-> [s EXCEPT !.sent = Append(@,
                    [cmd |-> cmd, state |-> s.state, ldms |-> s.ldms])],
          r |-> IF s.ldms = "connected" /\ env.send
                THEN Ok(Ret("value", 0, PyNone))
                ELSE Err("Exception", "send")]

\* Communicator.receive_response
receive_response(s, env) ==
    IF s.state # CONNECTED
    THEN [s |-> s, r |-> Err("RuntimeError", "Transport is not connected.")]
    ELSE IF env.recv = "reply"
    THEN [s |-> [s EXCEPT !.recv = "reply"], r |-> Ok(env.reply)]
    ELSE [s |-> close([s EXCEPT !.recv = env.recv]),
          r |-> Err("ConnectionError", env.recv)]

\* req.send(self); resp = req.receive(self)
exchange(s, req, env) ==
    LET a == send_command(s, req, env)
    IN  IF ~a.r.ok THEN [s |-> [a.s EXCEPT !.failed = "send"], r |-> a.r]
        ELSE LET b == receive_response(a.s, env)
             IN  IF ~b.r.ok
                 THEN [s |-> [b.s EXCEPT !.failed = "receive"], r |-> b.r]
                 ELSE b

\* The end of a control operation, by its shape:
\*  "plain"   return resp['errcode'], resp['msg'] in the try; the except
\*            returns ENOTCONN, None
\*  "close"   the same, and the except closes the session first
\*  "status"  the except closes; after the try the message of a reply with
\*            errcode 0 is parsed by json.loads
\*  "status_none" as "status", and a reply without a message is not parsed
control_return(x, shape) ==
    IF ~x.r.ok
    THEN [s |-> IF shape = "plain" THEN x.s ELSE close(x.s),
          r |-> Ok(Ret("pair", ENOTCONN, PyNone))]
    ELSE LET err == x.r.val.errcode
             msg == x.r.val.body
         IN  IF shape \in {"plain", "close"}
             THEN [s |-> x.s, r |-> Ok(Ret("pair", err, msg))]
             ELSE IF err = 0 /\ (shape = "status" \/ msg # PyNone)
             THEN [s |-> x.s,
                   r |-> IF msg.t # "str"
                         THEN Err("TypeError", "the JSON object must be str")
                         ELSE IF msg.s = <<"[]">>
                         THEN Ok(Ret("pair", err, Py("list", <<>>)))
                         ELSE Err("JSONDecodeError", "Expecting value")]
             ELSE [s |-> x.s, r |-> Ok(Ret("pair", err, PyNone))]

\* What a control operation does before its try: a request built, with the
\* shape of what follows, or the operation ended by a return or a raise.
Built(req, shape) ==
    [k |-> "req", req |-> <<req>>, shape |-> shape, r |-> Ok(Ret("value", 0, PyNone))]

Ended(r) == [k |-> "end", req |-> <<>>, shape |-> None, r |-> r]

prdcr_start(a) ==
    LET cmd_id == IF bool(a.regex) THEN "PRDCR_START_REGEX" ELSE "PRDCR_START"
        name_id == IF bool(a.regex) THEN "REGEX" ELSE "NAME"
        attrs == <<LDMSD_Req_Attr(name_id, a.name)>>
    IN  Built(LDMSD_Request(cmd_id,
                IF bool(a.reconnect)
                THEN Append(attrs, LDMSD_Req_Attr("INTERVAL", str(a.reconnect)))
                ELSE attrs),
              "close")

updtr_add(a) ==
    LET attrs == <<LDMSD_Req_Attr("NAME", a.name)>>
        einval == Ended(Ok(Ret("pair", EINVAL, Py("str", <<"EINVAL">>))))
    IN  IF bool(a.interval)
        THEN Built(LDMSD_Request("UPDTR_ADD",
                     attrs \o << LDMSD_Req_Attr("INTERVAL", str(a.interval)),
                                 LDMSD_Req_Attr("OFFSET",
                                     str(check_offset(a.interval, a.offset).val)) >>),
                   "close")
        ELSE IF bool(a.push)
        THEN IF a.push # Py("str", <<"onchange">>) /\ a.push # Py("bool", TRUE)
             THEN einval
             ELSE Built(LDMSD_Request("UPDTR_ADD",
                          Append(attrs, LDMSD_Req_Attr("PUSH", str(a.push)))),
                        "close")
        ELSE IF a.auto = PyNone
        THEN einval
        ELSE Built(LDMSD_Request("UPDTR_ADD",
                     Append(attrs, LDMSD_Req_Attr("AUTO_INTERVAL", str(a.auto)))),
                   "close")

updtr_start(a) ==
    LET attrs == <<LDMSD_Req_Attr("NAME", a.name)>>
    IN  IF bool(a.interval)
        THEN IF bool(a.auto)
             THEN Ended(Ok(Ret("pair", EINVAL,
                        Py("str", <<"'auto' is incompatible with 'interval'">>))))
             ELSE Built(LDMSD_Request("UPDTR_START",
                          attrs \o << LDMSD_Req_Attr("INTERVAL", str(a.interval)),
                                      LDMSD_Req_Attr("OFFSET",
                                          str(check_offset(a.interval, a.offset).val)) >>),
                        "close")
        ELSE IF bool(a.auto)
        THEN Built(LDMSD_Request("UPDTR_START",
                     Append(attrs, LDMSD_Req_Attr("AUTO_INTERVAL", str(a.auto)))),
                   "close")
        ELSE Built(LDMSD_Request("UPDTR_START", attrs), "close")

\* The part of a control operation before its try.  The operations whose
\* request carries the name alone are in a table with their commands;
\* auth_add (called without plugin and options) and plugn_load do not close
\* the session in their except.  smplr_status and prdcr_status with a name
\* read attrs in the list display before it is bound; updtr_status with a
\* name uses LDMSD_Req_ATTR, which is not defined.
control_request(op, a) ==
    LET by_name ==
            ( "auth_add" :> "AUTH_ADD" @@ "plugn_load" :> "PLUGN_LOAD"
           @@ "plugn_stop" :> "PLUGN_STOP" @@ "smplr_load" :> "PLUGN_LOAD"
           @@ "prdcr_del" :> "PRDCR_DEL" @@ "updtr_del" :> "UPDTR_DEL"
           @@ "updtr_stop" :> "UPDTR_STOP"
           @@ "updtr_match_list" :> "UPDTR_MATCH_LIST"
           @@ "strgp_del" :> "STRGP_DEL" @@ "strgp_start" :> "STRGP_START"
           @@ "strgp_stop" :> "STRGP_STOP" )
        name == <<LDMSD_Req_Attr("NAME", a.name)>>
        reset == <<LDMSD_Req_Attr("RESET", str(Py("bool", FALSE)))>>
    IN  CASE op \in DOMAIN by_name ->
                 Built(LDMSD_Request(by_name[op], name),
                       IF op \in {"auth_add", "plugn_load"} THEN "plain"
                       ELSE "close")
          [] op = "xprt_stats" -> Built(LDMSD_Request("XPRT_STATS", reset), "close")
          [] op = "thread_stats" ->
                 Built(LDMSD_Request("THREAD_STATS", reset), "close")
          [] op = "daemon_status" ->
                 Built(LDMSD_Request("DAEMON_STATUS", <<>>), "close")
          [] op = "smplr_status" ->
                 IF bool(a.name) THEN Ended(Err("UnboundLocalError", "attrs"))
                 ELSE Built(LDMSD_Request("PLUGN_STATUS", <<>>), "status_none")
          [] op = "prdcr_status" ->
                 IF bool(a.name) THEN Ended(Err("UnboundLocalError", "attrs"))
                 ELSE Built(LDMSD_Request("PRDCR_STATUS", <<>>), "status")
          [] op = "smplrset_status" ->
                 Built(LDMSD_Request("PLUGN_SETS",
                                     IF bool(a.name) THEN name ELSE <<>>),
                       "status")
          [] op = "updtr_status" ->
                 IF bool(a.name) THEN Ended(Err("NameError", "LDMSD_Req_ATTR"))
                 ELSE Built(LDMSD_Request("UPDTR_STATUS", <<>>), "close")
          [] op = "prdcr_start" -> prdcr_start(a)
          [] op = "updtr_add" -> updtr_add(a)
          [] op = "updtr_start" -> updtr_start(a)

\* A control operation that hands a request to the session before it
\* returns what the check of its arguments found.
control_rejects_after_send(s, op, a, env) ==
    LET b == control_request(op, a)
    IN  IF b.k = "req" THEN control_return(exchange(s, b.req[1], env), b.shape)
        ELSE [s |-> exchange(s, LDMSD_Request("UPDTR_START", <<>>), env).s,
              r |-> b.r]

\* A control operation, whole.
control(s, op, a, env) ==
    LET b == control_request(op, a)
    IN  IF b.k = "req" THEN control_return(exchange(s, b.req[1], env), b.shape)
        ELSE [s |-> s, r |-> b.r]

\* The calls of control operations that a client makes.
Calls ==
    LET names == { Py("str", <<"n", ".", "*">>) }
        bools == { Py("bool", TRUE), Py("bool", FALSE) }
    IN  { [op |-> o, a |-> [NoArgs EXCEPT !.name = n]] :
            o \in { "auth_add", "plugn_load", "plugn_stop", "smplr_load",
                    "prdcr_del", "updtr_del", "updtr_stop", "updtr_match_list",
                    "strgp_del", "strgp_start", "strgp_stop" },
            n \in names }
      \cup
        { [op |-> o, a |-> NoArgs] :
            o \in {"xprt_stats", "thread_stats", "daemon_status"} }
      \cup
        { [op |-> o, a |-> [NoArgs EXCEPT !.name = n]] :
            o \in { "smplr_status", "smplrset_status", "prdcr_status",
                    "updtr_status" },
            n \in names \cup {PyNone} }
      \cup
        { [op |-> "prdcr_start",
           a |-> [NoArgs EXCEPT !.name = n, !.regex = rx, !.reconnect = rc]] :
            n \in names, rx \in bools,
            rc \in { PyNone, Py("int", 2000000), Py("str", <<"2", "s">>) } }
      \cup
        { [op |-> "updtr_add",
           a |-> [NoArgs EXCEPT !.name = n, !.interval = i, !.offset = o,
                                !.push = p, !.auto = au]] :
            n \in names,
            i \in {PyNone, Py("int", 1000000)},
            o \in {PyNone, Py("int", 100000), Py("int", 900000)},
            p \in { PyNone, Py("str", <<"onchange">>), Py("bool", TRUE),
                    Py("str", <<"always">>) },
            au \in {PyNone} \cup bools }
      \cup
        { [op |-> "updtr_start",
           a |-> [NoArgs EXCEPT !.name = n, !.interval = i, !.offset = o,
                                !.auto = au]] :
            n \in names,
            i \in {PyNone, Py("int", 1000000)},
            o \in {PyNone, Py("int", 900000)},
            au \in {PyNone} \cup bools }

\* The history of a call that has ended as x.
History(op, a, x) ==
    [ op |-> op, args |-> a,
      before |-> [state |-> state, ldms |-> ldms],
      sent |-> x.s.sent, recv |-> x.s.recv, failed |-> x.s.failed,
      closed |-> x.s.closed, allocated |-> x.s.allocated,
      ret |-> IF x.r.ok THEN <<x.r.val>> ELSE <<>>,
      exc |-> IF x.r.ok THEN <<>> ELSE <<x.r.exc>> ]

Connect(env) ==
    LET x == connect(Session, env)
    IN  /\ state' = x.s.state
        /\ ldms' = x.s.ldms
        /\ last' = History("connect", NoArgs, x)
        /\ UNCHANGED <<registry_vars, proxy_vars, client_vars, fn_vars>>

Reconnect(env) ==
    LET x == reconnect(Session, env)
    IN  /\ state' = x.s.state
        /\ ldms' = x.s.ldms
        /\ last' = History("reconnect", NoArgs, x)
        /\ UNCHANGED <<registry_vars, proxy_vars, client_vars, fn_vars>>

Close ==
    LET x == [s |-> close(Session), r |-> Ok(Ret("value", 0, PyNone))]
    IN  /\ state' = x.s.state
        /\ ldms' = x.s.ldms
        /\ last' = History("close", NoArgs, x)
        /\ UNCHANGED <<registry_vars, proxy_vars, client_vars, fn_vars>>

\* send_command and receive_response, called as LDMSD_Request calls them.
SendCommand(env) ==
    LET x == send_command(Session, LDMSD_Request("DAEMON_STATUS", <<>>), env)
    IN  /\ state' = x.s.state
        /\ ldms' = x.s.ldms
        /\ last' = History("send_command", NoArgs, x)
        /\ UNCHANGED <<registry_vars, proxy_vars, client_vars, fn_vars>>

ReceiveResponse(env) ==
    LET x == receive_response(Session, env)
    IN  /\ state' = x.s.state
        /\ ldms' = x.s.ldms
        /\ last' = History("receive_response", NoArgs, x)
        /\ UNCHANGED <<registry_vars, proxy_vars, client_vars, fn_vars>>

Control(c, env) ==
    LET x == control(Session, c.op, c.a, env)
    IN  /\ state' = x.s.state
        /\ ldms' = x.s.ldms
        /\ last' = History(c.op, c.a, x)
        /\ UNCHANGED <<registry_vars, proxy_vars, client_vars, fn_vars>>

CommInit ==
    /\ RegistryAtRest
    /\ ProxyAtRest
    /\ Communicator_init
    /\ ClientAtRest
    /\ FnAtRest

CommNext ==
    \/ Close
    \/ \E env \in Envs("connect") :
        \/ Connect(env)
        \/ Reconnect(env)
    \/ \E env \in Envs("send") : SendCommand(env)
    \/ \E env \in Envs("recv") : ReceiveResponse(env)
    \/ \E env \in Envs("exchange") : \E c \in Calls : Control(c, env)

CommSpec == CommInit /\ [][CommNext]_vars

ControlOps == { c.op : c \in Calls }

\* The last call was a control operation.
ControlCalled == last.op \in ControlOps

NotConnected == Ret("pair", ENOTCONN, PyNone)

\* The transport's recv was called and raised.
RecvRaised == last.op # None /\ last.recv \in {"timeout", "error"}

\* C13: when the recv of receive_response ends in a timeout or in a
\* transport error on a CONNECTED session, the session is CLOSED and holds no
\* transport, the one it held has been closed, receive_response has raised
\* ConnectionError to its caller, and a control operation that was waiting
\* for the reply has returned (ENOTCONN, None).
C13_ReceiveFailureCloses ==
    RecvRaised =>
        /\ last.before.state = CONNECTED
        /\ state = CLOSED
        /\ ldms = None
        /\ last.closed = 1
        /\ (last.op = "receive_response" => last.exc = <<"ConnectionError">>)
        /\ (ControlCalled => last.exc = <<>> /\ last.ret = <<NotConnected>>)

\* auth_add, which does not close the session itself, has returned after a
\* timeout of the reply.
C13_Witness ==
    /\ RecvRaised
    /\ last.recv = "timeout"
    /\ last.op = "auth_add"
    /\ last.ret = <<NotConnected>>
    /\ state = CLOSED

\* C14: a control operation whose send or receive raised has returned
\* (ENOTCONN, None) and has left the session CLOSED.
C14_ExceptionCloses ==
    ControlCalled /\ last.failed # None =>
        /\ last.ret = <<NotConnected>>
        /\ state = CLOSED

\* C15: send_command hands a message to the transport only in state
\* CONNECTED, and raises ConnectionError otherwise; a control operation on a
\* session that is not CONNECTED hands nothing to the transport; and the
\* transport of a session that is not CONNECTED is not connected, so that no
\* message leaves a session that is not CONNECTED.
C15_SendOnlyConnected ==
    /\ (ldms = "connected" => state = CONNECTED)
    /\ (last.op # None =>
          /\ \A i \in 1..Len(last.sent) :
               /\ last.sent[i].state = CONNECTED
               /\ last.sent[i].ldms = "connected"
          /\ (last.op = "send_command" /\ last.before.state # CONNECTED
                => last.exc = <<"ConnectionError">> /\ last.sent = <<>>)
          /\ (ControlCalled /\ last.before.state # CONNECTED
                => last.sent = <<>>))

\* send_command has been called on a CLOSED session and on a session in
\* INIT: here, on a CLOSED one that holds a transport again.
C15_Witness ==
    /\ last.op = "send_command"
    /\ last.before.state = CLOSED
    /\ last.before.ldms = "new"
    /\ last.exc = <<"ConnectionError">>

\* C16: a session that is CLOSED holds no transport.
C16_ClosedHoldsNoTransport == state = CLOSED => ldms = None

\* The modes of updtr_add that the arguments supply.
ModesSupplied(a) ==
    { m \in {"interval", "push", "auto"} :
        \/ m = "interval" /\ a.interval # PyNone
        \/ m = "push" /\ a.push # PyNone
        \/ m = "auto" /\ a.auto # PyNone }

OneValidMode(a) ==
    /\ Cardinality(ModesSupplied(a)) = 1
    /\ (a.push # PyNone => a.push \in {Py("str", <<"onchange">>), Py("bool", TRUE)})
    /\ (a.auto # PyNone => a.auto \in {Py("bool", TRUE), Py("bool", FALSE)})

\* C17: updtr_add hands a request to a CONNECTED session when exactly one of
\* interval, push (onchange or True) and auto (True or False) is supplied,
\* and in every other case returns EINVAL and hands nothing to the session.
C17_UpdtrAddModes ==
    last.op = "updtr_add" =>
        IF OneValidMode(last.args)
        THEN last.before.state = CONNECTED => Len(last.sent) = 1
        ELSE /\ last.sent = <<>>
             /\ last.ret # <<>>
             /\ last.ret[1].kind = "pair"
             /\ last.ret[1].errcode = EINVAL

AttrsOf(req, id) ==
    { req.attrs[i].value : i \in { j \in 1..Len(req.attrs) : req.attrs[j].attr_id = id } }

\* C18: the request that prdcr_start hands to the session is
\* PRDCR_START_REGEX with the name as REGEX when regex is True, PRDCR_START
\* with the name as NAME when it is False; it carries as INTERVAL the decimal
\* digits of the reconnect interval in microseconds when reconnect is given,
\* and no INTERVAL otherwise.
C18_PrdcrStartRequest ==
    last.op = "prdcr_start" /\ last.sent # <<>> =>
        LET req == last.sent[1].cmd
            a == last.args
        IN  /\ Len(last.sent) = 1
            /\ IF a.regex = Py("bool", TRUE)
               THEN /\ req.command_id = "PRDCR_START_REGEX"
                    /\ AttrsOf(req, "REGEX") = {a.name}
                    /\ AttrsOf(req, "NAME") = {}
               ELSE /\ req.command_id = "PRDCR_START"
                    /\ AttrsOf(req, "NAME") = {a.name}
                    /\ AttrsOf(req, "REGEX") = {}
            /\ IF a.reconnect = PyNone
               THEN AttrsOf(req, "INTERVAL") = {}
               ELSE /\ cvt_intrvl_str_to_us(a.reconnect).ok
                    /\ AttrsOf(req, "INTERVAL")
                         = {Py("str", DecStr(cvt_intrvl_str_to_us(a.reconnect).val))}

\* C19: a control operation, whatever its arguments and the state of the
\* session, has returned a pair and has raised nothing.
C19_NoExceptionEscapes ==
    ControlCalled => last.exc = <<>> /\ last.ret # <<>> /\ last.ret[1].kind = "pair"

ReturnedBool(b) == last.ret = <<Ret("value", 0, Py("bool", b))>>

\* C20: reconnect has closed the transport the session held, if it held
\* one, has allocated one transport, and has returned True with the session
\* CONNECTED when the connect succeeded, False with the session not
\* CONNECTED when it failed.
C20_Reconnect ==
    last.op = "reconnect" =>
        /\ last.closed = (IF last.before.ldms # None THEN 1 ELSE 0)
        /\ last.allocated = 1
        /\ last.exc = <<>>
        /\ (ReturnedBool(TRUE) \/ ReturnedBool(FALSE))
        /\ (ReturnedBool(TRUE) <=> ldms = "connected")
        /\ (ReturnedBool(TRUE) => state = CONNECTED)
        /\ (ReturnedBool(FALSE) => state = CLOSED /\ ldms = "new")

\* reconnect has returned True on a session that was CONNECTED, having
\* closed the transport it held.
C20_Witness ==
    /\ last.op = "reconnect"
    /\ last.before.state = CONNECTED
    /\ last.before.ldms = "connected"
    /\ last.closed = 1
    /\ ReturnedBool(TRUE)
    /\ state = CONNECTED

(***************************************************************************)
(* EtcdProxy: errors that are not transport errors, and the mutex.         *)
(***************************************************************************)
\* The call of caller c has ended with an exception that is not an
\* Etcd3Exception.
OtherRaised(c) ==
    /\ calls[c].pc = "raised"
    /\ calls[c].exc # <<>>
    /\ calls[c].exc[1] = "Exception"

\* C29: when the wrapped call raises an exception that is not a transport
\* error, the proxied call ends at that step with that exception: the
\* endpoint the call was made on is the last one tried, the current client
\* and the endpoint index are the ones before the call, and the lock is free.
C29_OtherErrorPropagates ==
    [][\A c \in Callers :
         (calls[c].pc = "try" /\ OtherRaised(c)')
           => /\ calls'[c].tried = Append(calls[c].tried, etcd)
              /\ calls'[c].i = calls[c].i
              /\ etcd' = etcd
              /\ etcd_idx' = etcd_idx
              /\ lock = <<c>>
              /\ lock' = <<>>]_vars

\* A call has ended with an error that is not a transport error, after a
\* failover inside the same call, and the other caller has taken the lock
\* since.
C29_Witness ==
    \E c \in Callers : \E d \in Callers :
        /\ c # d
        /\ OtherRaised(c)
        /\ Len(calls[c].tried) = 2
        /\ calls[d].pc = "try"
        /\ lock = <<d>>

IdsUnder(store, name) ==
    { DocId(d) : d \in { a \in Accepted :
                           /\ a.name = name
                           /\ name_key(a.name, DocId(a)) \in DOMAIN store } }

RegisteredNames(store) == { d.name : d \in { a \in Accepted : IdsUnder(store, a.name) # {} } }

\* C22: the keys of list_names() are the registered names, each mapped to
\* the ids registered under it, each id once; list_names(n) of a registered
\* name is that one entry, so that the entries of list_names(n) over the
\* registered names n are the entries of list_names(); and list_names(n) of
\* any name holds no other key than n.
C22_ListNames ==
    LET all == list_names(kv, <<>>)
    IN  /\ DOMAIN all = RegisteredNames(kv)
        /\ \A n \in RegisteredNames(kv) :
             /\ SeqRange(all[n]) = IdsUnder(kv, n)
             /\ \A id \in IdsUnder(kv, n) : CountIn(all[n], id) = 1
             /\ list_names(kv, n) = [g \in {n} |-> all[n]]
        /\ \A n \in PathNames \cup { d.name : d \in Accepted } :
             DOMAIN list_names(kv, n) \subseteq {n}

(***************************************************************************)
(* SchemaRegistryClient: the requests that go through _req.                *)
(***************************************************************************)
MaxUrls == 3

\* The lists of URLs a client is constructed with: distinct servers.
UrlLists == { SubSeq(<<"A", "B", "C", "D">>, 1, n) : n \in 0..MaxUrls }

Urls == { urls[i] : i \in 1..Len(urls) }

\* _req is entered: n = len(self._urls).
ReqStart ==
    /\ rq.pc = "idle"
    /\ rq' = [ pc |-> IF Len(urls) = 0 THEN "raised" ELSE "try",
               n |-> Len(urls), first |-> uidx, tried |-> <<>>,
               stable |-> reach,
               exc |-> IF Len(urls) = 0
                       THEN <<"RuntimeError", "No active exception to reraise">>
                       ELSE <<>> ]
    /\ UNCHANGED <<urls, uidx, reach>>
    /\ UNCHANGED <<registry_vars, proxy_vars, comm_vars, fn_vars>>

\* A loop that goes on with the URL it has.
ReqAttempt_same_url(resp_ok) ==
    /\ rq.pc = "try"
    /\ LET prefix == urls[uidx + 1]
       IN  IF prefix \in reach
           THEN /\ rq' = [rq EXCEPT
                            !.pc = IF resp_ok THEN "returned" ELSE "raised",
                            !.tried = Append(@, prefix),
                            !.exc = IF resp_ok THEN <<>>
                                    ELSE <<"RuntimeError", "HTTP Response Status">>]
                /\ UNCHANGED uidx
           ELSE /\ rq' = [rq EXCEPT
                            !.pc = IF rq.n - 1 = 0 THEN "raised" ELSE "try",
                            !.n = @ - 1,
                            !.tried = Append(@, prefix),
                            !.exc = IF rq.n - 1 = 0
                                    THEN <<"RuntimeError",
                                           "No active exception to reraise">>
                                    ELSE <<>>]
                /\ UNCHANGED uidx
    /\ UNCHANGED <<urls, reach>>
    /\ UNCHANGED <<registry_vars, proxy_vars, comm_vars, fn_vars>>

\* One turn of the loop of _req: the request is sent to self._urls[self._uidx].
\* A server that is reached answers: a response that is not OK raises
\* RuntimeError with its status, an OK one is returned.  When the request
\* cannot be sent, n is decremented and _uidx advanced modulo the length of
\* the list; when n has reached 0 the loop ends and the bare raise, with no
\* exception active, raises RuntimeError.
ReqAttempt(resp_ok) ==
    /\ rq.pc = "try"
    /\ LET prefix == urls[uidx + 1]
       IN  IF prefix \in reach
           THEN /\ rq' = [rq EXCEPT
                            !.pc = IF resp_ok THEN "returned" ELSE "raised",
                            !.tried = Append(@, prefix),
                            !.exc = IF resp_ok THEN <<>>
                                    ELSE <<"RuntimeError", "HTTP Response Status">>]
                /\ UNCHANGED uidx
           ELSE /\ rq' = [rq EXCEPT
                            !.pc = IF rq.n - 1 = 0 THEN "raised" ELSE "try",
                            !.n = @ - 1,
                            !.tried = Append(@, prefix),
                            !.exc = IF rq.n - 1 = 0
                                    THEN <<"RuntimeError",
                                           "No active exception to reraise">>
                                    ELSE <<>>]
                /\ uidx' = (uidx + 1) % Len(urls)
    /\ UNCHANGED <<urls, reach>>
    /\ UNCHANGED <<registry_vars, proxy_vars, comm_vars, fn_vars>>

\* The caller has the response or the exception.
ReqDone ==
    /\ rq.pc \in {"returned", "raised"}
    /\ rq' = ReqIdle
    /\ UNCHANGED <<urls, uidx, reach>>
    /\ UNCHANGED <<registry_vars, proxy_vars, comm_vars, fn_vars>>

\* A server goes down or comes up.
ServerChanges(u) ==
    /\ reach' = IF u \in reach THEN reach \ {u} ELSE reach \cup {u}
    /\ rq' = IF rq.pc = "try" THEN [rq EXCEPT !.stable = @ \cap reach'] ELSE rq
    /\ UNCHANGED <<urls, uidx>>
    /\ UNCHANGED <<registry_vars, proxy_vars, comm_vars, fn_vars>>

ClientInit ==
    /\ RegistryAtRest
    /\ ProxyAtRest
    /\ Communicator_init
    /\ FnAtRest
    /\ \E list \in UrlLists : SchemaRegistryClient_init(list)
    /\ reach \in SUBSET Urls
    /\ rq = ReqIdle

ClientNext ==
    \/ ReqStart
    \/ \E resp_ok \in BOOLEAN : ReqAttempt(resp_ok)
    \/ ReqDone
    \/ \E u \in Urls : ServerChanges(u)

ClientSpec == ClientInit /\ [][ClientNext]_vars

\* The request has ended because no URL was left to try.
Exhausted ==
    /\ rq.pc = "raised"
    /\ rq.exc # <<>>
    /\ rq.exc[2] = "No active exception to reraise"

\* C21: a request is sent first to the URL the client points at and then to
\* the URLs that follow it in the list, modulo its length, to each at most
\* once; when a server could be reached from the start of the request to its
\* end, the request does not end because the URLs are used up; at the step in
\* which a server answers, the client points at that server, and it still
\* does when the response is returned; and a request that ends because the
\* URLs are used up has sent the request to every URL once, as many attempts
\* as there are URLs.
C21_ClientFailover ==
    /\ [](LET t == rq.tried IN
            /\ Len(t) <= Len(urls)
            /\ \A k \in 1..Len(t) : t[k] = urls[((rq.first + k - 1) % Len(urls)) + 1]
            /\ \A k \in 1..Len(t) : \A j \in 1..Len(t) : t[k] = t[j] => k = j
            /\ (Exhausted => /\ rq.stable = {}
                             /\ Len(t) = Len(urls)
                             /\ { t[k] : k \in 1..Len(t) } = Urls)
            /\ (rq.pc = "returned" => /\ t # <<>>
                                      /\ urls[uidx + 1] = t[Len(t)]))
    /\ [][rq.pc = "try" /\ rq'.pc \in {"returned", "raised"} /\ ~Exhausted'
            => /\ urls[uidx' + 1] = rq'.tried[Len(rq'.tried)]
               /\ urls[uidx' + 1] \in reach
               /\ (rq'.pc = "returned" <=> rq'.exc = <<>>)]_vars

\* A request has been answered by the third server of the list after the
\* first two could not be reached.
C21_Witness ==
    /\ rq.pc = "returned"
    /\ rq.tried = <<"A", "B", "C">>
    /\ uidx = 2

(***************************************************************************)
(* The functions that keep no state: the interval parsers, the offset      *)
(* normalization, the type tables, and the codec, digest and compatibility *)
(* of schemas.  Each action is one call, made from the state in which     *)
(* none was made: the functions keep no state, so that a call tells        *)
(* nothing about the next.                                                 *)
(***************************************************************************)
\* The interval arguments: ints, None, and strings of one token a character.
IntervalArgs ==
    { Py("int", 5), Py("int", 0), PyNone, Py("str", <<>>) }
    \cup { Py("str", t) :
             t \in { <<"2", "s">>, <<"1", ".", "5", "s">>, <<"1", ".", "5", "S">>,
                     <<"2", "u", "s">>, <<"2", "U", "S">>, <<"5", "m", "s">>,
                     <<"3", "m">>, <<"0", ".", "5", "h">>, <<"0", ".", "0", "1", "d">>,
                     <<"5", "0", "s", "4", "0", "u", "s">>, <<"2", "s", "s">>,
                     <<"2", "u", "s", "u", "s">>, <<"2", "s", "x">>, <<"2", "x">>,
                     <<"x", "2", "s">>, <<"s">>, <<"5">>, <<"1", ".", "5">>,
                     <<".", "s">>, <<"2", "m", "s", "s">> } }

\* cvt_intrvl_str_to_us or check_intrvl_str is called.
ParseInterval(f, interval_s) ==
    LET r == IF f = "cvt_intrvl_str_to_us"
             THEN LET c == cvt_intrvl_str_to_us(interval_s)
                  IN  IF c.ok THEN Ok(Py("int", c.val)) ELSE c
             ELSE check_intrvl_str(interval_s)
    IN  /\ fn = FnIdle
        /\ fn' = [FnIdle EXCEPT !.f = f, !.arg = interval_s, !.ok = r.ok,
                                !.exc = r.exc,
                                !.ret = IF r.ok THEN r.val ELSE PyNone]
        /\ UNCHANGED <<registry_vars, proxy_vars, comm_vars, client_vars>>

\* check_offset is called.
CheckOffset(interval_us, offset_us) ==
    LET r == check_offset(interval_us, offset_us)
    IN  /\ fn = FnIdle
        /\ fn' = [FnIdle EXCEPT !.f = "check_offset", !.arg = interval_us,
                                !.arg2 = offset_us, !.ok = r.ok, !.exc = r.exc,
                                !.ret = IF r.ok THEN r.val ELSE PyNone]
        /\ UNCHANGED <<registry_vars, proxy_vars, comm_vars, client_vars>>

\* The strings handed to ValueType.from_json_str: the keys of STR_TYPE_TBL
\* and two strings it does not hold.
TypeStrings == DOMAIN STR_TYPE_TBL \cup {"int[]", "bogus"}

\* ValueType.from_json_str(_str) is called, and k.to_json_str() with
\* ValueType.from_json_str of what it returns.
TypeTables(_str, k) ==
    LET e == ValueType_to_json_str(k)
    IN  /\ fn = FnIdle
        /\ fn' = [FnIdle EXCEPT
                    !.f = "ValueType", !.type = _str,
                    !.back = ValueType_from_json_str(_str),
                    !.kind = k, !.ok = e.ok, !.exc = e.exc,
                    !.emitted = IF e.ok THEN e.val ELSE "None",
                    !.again = IF e.ok THEN ValueType_from_json_str(e.val)
                              ELSE None]
        /\ UNCHANGED <<registry_vars, proxy_vars, comm_vars, client_vars>>

\* The intervals and offsets handed to check_offset, in microseconds.
Intervals == { Py("int", n) : n \in {0, 100, 101} }

Offsets == { PyNone } \cup { Py("int", n) : n \in {0, 40, 50, 51, 80} }

\* The fields of the documents the codec is given: a primitive with units,
\* is_meta or doc, under an alias, of an array kind, of a type string that
\* STR_TYPE_TBL does not hold, and under another name;
\* arrays, lists, records and a record array, each with the attributes that
\* the digest leaves out varied.
FieldVariants ==
    LET x == Prim("x", "u64")
        a == [Prim("x", "array") EXCEPT !.items = "s32", !.len = <<4>>]
        l == [Prim("x", "list") EXCEPT !.heap_sz = <<16>>]
        r == [Prim("x", "record") EXCEPT !.fields = << Prim("y", "u64") >>]
        ra == [Prim("x", "array") EXCEPT !.items = "record", !.len = <<2>>,
                                         !.record_type = << <<"r">> >>]
    IN  { x, [x EXCEPT !.units = "kB"], [x EXCEPT !.is_meta = <<TRUE>>],
          [x EXCEPT !.doc = "d"], Prim("x", "int"), Prim("x", "s32[]"),
          Prim("x", "int[]"), Prim("y", "u64"),
          a, [a EXCEPT !.len = <<8>>], [a EXCEPT !.units = "kB"],
          [a EXCEPT !.items = "u64"],
          l, [l EXCEPT !.heap_sz = <<32>>], [l EXCEPT !.units = "kB"],
          [l EXCEPT !.is_meta = <<TRUE>>],
          r, [r EXCEPT !.units = "kB"], [r EXCEPT !.is_meta = <<FALSE>>],
          [r EXCEPT !.fields = << [Prim("y", "u64") EXCEPT !.units = "kB"] >>],
          ra, [ra EXCEPT !.units = "kB"], [ra EXCEPT !.len = <<3>>] }

\* The documents: one field each, and one of two fields.
SchemaDocs ==
    { SchemaDoc(<<"m">>, <<f>>) : f \in FieldVariants }
    \cup { SchemaDoc(<<"m">>, << Prim("x", "u64"), Prim("y", "u64") >>) }

\* The digest and the id of a schema, or nothing when the digest raises.
DigestAndId(sch) ==
    IF Schema_digest(sch).ok
    THEN << Schema_digest(sch).val, Schema_id(sch).val >>
    ELSE <<>>

\* Schema.from_json(s.as_json()) for the schema s that a document loads as,
\* and the digests of both.  Each step is bound to its result: s the
\* schema, j the text, t the schema read back, h its digest.
RoundTrip(d) ==
    \E s \in { Schema_from_dict(d) } :
        /\ fn = FnIdle
        /\ s.ok
        /\ \E j \in { Schema_as_json(s.val) } :
           \E t \in { IF j.ok THEN Schema_from_json(j.val) ELSE j } :
           \E h \in { IF t.ok THEN Schema_digest(t.val) ELSE t } :
           \E c \in { IF t.ok THEN Schema_compatible(s.val, t.val) ELSE t } :
               fn' = [FnIdle EXCEPT
                        !.f = "from_json", !.a = d, !.ok = t.ok, !.exc = h.exc,
                        !.ret = IF c.ok THEN Py("bool", c.val) ELSE PyNone,
                        !.d0 = DigestAndId(s.val),
                        !.d1 = IF t.ok THEN DigestAndId(t.val) ELSE <<>>]
        /\ UNCHANGED <<registry_vars, proxy_vars, comm_vars, client_vars>>

\* Schemas built by the constructors, as Schema.from_ldms_schema builds them
\* from a set's templates: a list field with units or is_meta, a record field
\* with is_meta, units or doc, and a plain one of each.
BuiltSchemas ==
    LET l == [ SchemaMetric("List", <<"x">>, "LIST", None, FALSE, None)
               EXCEPT !.heap_sz = <<16>> ]
        r == [ SchemaMetric("Record", <<"x">>, "RECORD_TYPE", None, TRUE, None)
               EXCEPT !.metrics =
                   << SchemaMetric("Primitive", <<"y">>, "U64", None, FALSE, None) >> ]
    IN  { Schema(<<"m">>, <<m>>, None) :
            m \in { l, [l EXCEPT !.units = "kB"], [l EXCEPT !.is_meta = TRUE],
                     r, [r EXCEPT !.is_meta = FALSE], [r EXCEPT !.units = "kB"],
                     [r EXCEPT !.doc = "d"] } }

\* s.compatible(Schema.from_json(s.as_json())) for a schema s built by the
\* constructors; a is the document that as_json writes.
RoundTripBuilt(s) ==
    \E j \in { Schema_as_json(s) } :
        /\ fn = FnIdle
        /\ j.ok
        /\ \E t \in { Schema_from_json(j.val) } :
           \E c \in { IF t.ok THEN Schema_compatible(s, t.val) ELSE t } :
               fn' = [FnIdle EXCEPT
                        !.f = "as_json", !.a = j.val.json.schema, !.ok = t.ok,
                        !.exc = c.exc,
                        !.ret = IF c.ok THEN Py("bool", c.val) ELSE PyNone,
                        !.d0 = DigestAndId(s),
                        !.d1 = IF t.ok THEN DigestAndId(t.val) ELSE <<>>]
        /\ UNCHANGED <<registry_vars, proxy_vars, comm_vars, client_vars>>

\* a.compatible(b) for the schemas that two documents load as, and the
\* digests of both.
Compatible(a, b) ==
    LET s0 == Schema_from_dict(a)
        s1 == Schema_from_dict(b)
        c == Schema_compatible(s0.val, s1.val)
    IN  /\ fn = FnIdle
        /\ s0.ok /\ s1.ok
        /\ fn' = [FnIdle EXCEPT
                    !.f = "compatible", !.a = a, !.b = b, !.ok = c.ok,
                    !.exc = c.exc,
                    !.ret = IF c.ok THEN Py("bool", c.val) ELSE PyNone,
                    !.d0 = DigestAndId(s0.val), !.d1 = DigestAndId(s1.val)]
        /\ UNCHANGED <<registry_vars, proxy_vars, comm_vars, client_vars>>

\* The stores that purge_database finds: the keys that add_schema wrote for
\* some documents, and keys that others wrote: those of a registry whose
\* etcd_prefix is this one's followed by "2", and one outside of both.
PurgeStores ==
    LET own == { AddKeys(DocM), AddKeys(DocDash) }
        others == { etcd_prefix \o <<"2", SL, "objects", SL, "m">>,
                    etcd_prefix \o <<"2", SL, "index", SL, "names", SL, "m">>,
                    <<SL, "other", SL, "m">> }
    IN  { [k \in (UNION o) \cup f |-> k] : o \in SUBSET own, f \in SUBSET others }

\* SchemaRegistry.purge_database is called.
Purge(store) ==
    /\ fn = FnIdle
    /\ fn' = [FnIdle EXCEPT !.f = "purge_database", !.kv0 = store,
                            !.kv1 = purge_database(store)]
    /\ UNCHANGED <<registry_vars, proxy_vars, comm_vars, client_vars>>

\* The most fields of a document handed to as_ldms_schema.
MaxFields == 3

\* The documents handed to as_ldms_schema: up to MaxFields fields, in every
\* order, out of a record r, a record array of r, a primitive named r, a
\* primitive and a list.  from_dict refuses the ones with the name r twice.
LdmsDocs ==
    LET r == [Prim("r", "record") EXCEPT !.fields = << Prim("y", "u64") >>]
        ra == [Prim("x", "array") EXCEPT !.items = "record", !.len = <<2>>,
                                         !.record_type = << <<"r">> >>]
        fs == { r, ra, Prim("r", "u64"), Prim("y", "u64"),
                [Prim("z", "list") EXCEPT !.heap_sz = <<16>>] }
    IN  { SchemaDoc(<<"m">>, fields) :
            fields \in UNION { [1..n -> fs] : n \in 1..MaxFields } }

\* Schema.as_ldms_schema is called on the schema that a document loads as.
AsLdmsSchema(d) ==
    \E s \in { Schema_from_dict(d) } :
        /\ fn = FnIdle
        /\ s.ok
        /\ \E r \in { Schema_as_ldms_schema(s.val) } :
               fn' = [FnIdle EXCEPT !.f = "as_ldms_schema", !.a = d,
                                    !.ok = r.ok, !.exc = r.exc, !.sch = r.val]
        /\ UNCHANGED <<registry_vars, proxy_vars, comm_vars, client_vars>>

FnInit ==
    /\ RegistryAtRest
    /\ ProxyAtRest
    /\ Communicator_init
    /\ ClientAtRest
    /\ FnAtRest

FnNext ==
    \/ \E f \in {"cvt_intrvl_str_to_us", "check_intrvl_str"} :
         \E interval_s \in IntervalArgs : ParseInterval(f, interval_s)
    \/ \E interval_us \in Intervals : \E offset_us \in Offsets :
         CheckOffset(interval_us, offset_us)
    \/ \E _str \in TypeStrings : \E k \in ValueType : TypeTables(_str, k)
    \/ \E d \in SchemaDocs : RoundTrip(d)
    \/ \E s \in BuiltSchemas : RoundTripBuilt(s)
    \/ \E a \in SchemaDocs : \E b \in SchemaDocs : Compatible(a, b)
    \/ \E store \in PurgeStores : Purge(store)
    \/ \E d \in LdmsDocs : AsLdmsSchema(d)

FnSpec == FnInit /\ [][FnNext]_vars

\* Twice a number that Python holds, so that a float counted in halves and
\* an int compare.
Twice(x) == IF x.t = "float" THEN x.n ELSE 2 * x.n

\* C27: for every interval and offset that a start or add operation can
\* pass, check_offset returns a value and raises no arithmetic error; the
\* value is interval_us/2 when offset_us is above interval_us/2, offset_us
\* unchanged when it is present and not above interval_us/2, and 0 when
\* offset_us is absent; and the value is a whole number of microseconds that
\* does not exceed interval_us/2.
C27_OffsetNormalization ==
    fn.f = "check_offset" =>
        /\ fn.ok
        /\ fn.arg2 = PyNone => Twice(fn.ret) = 0
        /\ fn.arg2 # PyNone /\ Twice(fn.arg2) > fn.arg.n
             => Twice(fn.ret) = fn.arg.n
        /\ fn.arg2 # PyNone /\ Twice(fn.arg2) <= fn.arg.n
             => fn.ret = fn.arg2
        /\ Twice(fn.ret) % 2 = 0
        /\ Twice(fn.ret) <= fn.arg.n

\* The aliases of the forward map and the kinds they stand for.
Aliases == [ int |-> "S32", long |-> "S64", float |-> "F32", double |-> "D64" ]

\* The compact strings: one for a scalar kind, the same followed by [] for
\* its array kind, and record, record[] and list.
CompactStrings ==
    {"char", "u8", "s8", "u16", "s16", "u32", "s32", "u64", "s64", "f32", "d64",
     "char[]", "u8[]", "s8[]", "u16[]", "s16[]", "u32[]", "s32[]", "u64[]",
     "s64[]", "f32[]", "d64[]", "record", "record[]", "list"}

\* C28: the forward map gives a kind for every compact string and for the
\* aliases int, long, float and double, which stand for S32, S64, F32 and
\* D64; and for every kind that the inverse map emits a string for, the
\* forward map gives that kind again for the emitted string.
C28_TypeTableRoundTrip ==
    fn.f = "ValueType" =>
        /\ fn.type \in CompactStrings => fn.back \in ValueType
        /\ fn.type \in DOMAIN Aliases => fn.back = Aliases[fn.type]
        /\ fn.ok => fn.again = fn.kind

\* The forward half of C28 alone, and the round trip for the kinds whose
\* emitted string the forward map holds.
C28_ForwardAndHeldStrings ==
    fn.f = "ValueType" =>
        /\ fn.type \in CompactStrings => fn.back \in ValueType
        /\ fn.type \in DOMAIN Aliases => fn.back = Aliases[fn.type]
        /\ fn.ok /\ fn.emitted \in DOMAIN STR_TYPE_TBL => fn.again = fn.kind

\* The units of an interval string and their multipliers in microseconds,
\* each held as the pair of its quotient and remainder by 10^6.
UnitMultiplier ==
    << [u |-> <<"u", "s">>, mega |-> 0, rest |-> 1],
       [u |-> <<"m", "s">>, mega |-> 0, rest |-> 1000],
       [u |-> <<"s">>, mega |-> 1, rest |-> 0],
       [u |-> <<"m">>, mega |-> 60, rest |-> 0],
       [u |-> <<"h">>, mega |-> 3600, rest |-> 0],
       [u |-> <<"d">>, mega |-> 86400, rest |-> 0] >>

IsDigit(c) == \E d \in 0..9 : DecStr(d) = <<c>>

\* A number: digits with at most one point among them, one digit at least.
IsNumber(cs) ==
    /\ \A i \in 1..Len(cs) : IsDigit(cs[i]) \/ cs[i] = "."
    /\ Cardinality({ i \in 1..Len(cs) : cs[i] = "." }) <= 1
    /\ \E i \in 1..Len(cs) : IsDigit(cs[i])

\* The digits of a number written without its point, and the count of its
\* digits after the point.
RECURSIVE NatOf(_)
NatOf(cs) ==
    IF cs = <<>> THEN 0
    ELSE IF cs[Len(cs)] = "." THEN NatOf(SubSeq(cs, 1, Len(cs) - 1))
    ELSE NatOf(SubSeq(cs, 1, Len(cs) - 1)) * 10
         + (CHOOSE d \in 0..9 : DecStr(d) = <<cs[Len(cs)]>>)

Decimals(cs) ==
    IF \E i \in 1..Len(cs) : cs[i] = "."
    THEN Len(cs) - (CHOOSE i \in 1..Len(cs) : cs[i] = ".")
    ELSE 0

\* The whole microseconds of number times the multiplier of a unit.
Microseconds(cs, unit) ==
    LET e == 10 ^ Decimals(cs)
        n == NatOf(cs)
    IN  ((n * unit.mega) \div e) * 1000000
        + (((n * unit.mega) % e) * 1000000 + n * unit.rest) \div e

\* The readings of a string as <number><unit> with nothing after the unit:
\* case is not told apart.
Readings(text) ==
    { Microseconds(SubSeq(Lower(text), 1, k), UnitMultiplier[j]) :
        <<k, j>> \in { p \in (0..Len(text)) \X (1..Len(UnitMultiplier)) :
                         /\ IsNumber(SubSeq(Lower(text), 1, p[1]))
                         /\ SubSeq(Lower(text), p[1] + 1, Len(text))
                              = UnitMultiplier[p[2]].u } }

\* A string of digits only, the way an integer is written.
IsInteger(text) == text # <<>> /\ \A i \in 1..Len(text) : IsDigit(text[i])

\* C26: each interval parser returns an integer as it is; for a string
\* <number><unit> with one unit from us, ms, s, m, h, d in either case and
\* nothing after the unit it returns number times the unit's multiplier in
\* microseconds; and every other string is rejected with an error, the
\* string with two units, the string with characters after the unit and the
\* empty string among them.  A string that writes an integer without a unit
\* is left open.
C26_IntervalParser ==
    fn.f \in {"cvt_intrvl_str_to_us", "check_intrvl_str"} =>
        IF fn.arg.t = "int" THEN fn.ok /\ fn.ret = fn.arg
        ELSE IF fn.arg.t = "str" /\ Readings(fn.arg.s) # {}
        THEN fn.ok /\ \E us \in Readings(fn.arg.s) : fn.ret = Py("int", us)
        ELSE IF fn.arg.t = "str" /\ IsInteger(fn.arg.s) THEN TRUE
        ELSE ~fn.ok

\* C23: for every schema s, Schema.from_json(s.as_json()) loads without
\* error and has the digest, and so the id, of s.
C23_DigestRoundTrip ==
    fn.f = "from_json" => fn.ok /\ fn.d0 # <<>> /\ fn.d1 = fn.d0

\* A field without what the digest leaves out: array length, list heap
\* size, units, doc and is_meta, in the field and in the fields of a record.
RECURSIVE Bare(_)
Bare(f) ==
    [ f EXCEPT !.len = <<>>, !.heap_sz = <<>>, !.units = None, !.doc = None,
               !.is_meta = <<>>,
               !.fields = [i \in 1..Len(f.fields) |-> Bare(f.fields[i])] ]

\* Some pair of corresponding fields differs in units or in is_meta; an
\* is_meta that is absent is one that is false.
RECURSIVE UnitsOrMetaDiffer(_, _)
UnitsOrMetaDiffer(fs, gs) ==
    \E i \in 1..Len(fs) :
        \/ fs[i].units # gs[i].units
        \/ Truthy(fs[i].is_meta) # Truthy(gs[i].is_meta)
        \/ /\ Len(fs[i].fields) = Len(gs[i].fields)
           /\ UnitsOrMetaDiffer(fs[i].fields, gs[i].fields)

\* C24: two schemas, loaded from JSON, whose field sequences are the same
\* but for array length, list heap size, units, doc and is_meta have equal
\* digests, and compatible returns False for them whenever a pair of
\* corresponding fields differs in units or in is_meta.
C24_DigestCollidesCompatibleTellsApart ==
    (fn.f = "compatible" /\ Bare(fn.a) = Bare(fn.b)) =>
        /\ fn.d0 # <<>> /\ fn.d1 # <<>> /\ fn.d0[1] = fn.d1[1]
        /\ UnitsOrMetaDiffer(fn.a.fields, fn.b.fields)
             => fn.ok /\ fn.ret = Py("bool", FALSE)

ArrayKinds ==
    { "CHAR_ARRAY", "U8_ARRAY", "S8_ARRAY", "U16_ARRAY", "S16_ARRAY",
      "U32_ARRAY", "S32_ARRAY", "U64_ARRAY", "S64_ARRAY", "F32_ARRAY",
      "D64_ARRAY", "RECORD_ARRAY" }

\* Field compatibility as stated: same name, kind, units and is_meta; for
\* arrays the same length and item kind; for records compatible fields.
RECURSIVE FieldCompatible(_, _)
FieldCompatible(m0, m1) ==
    /\ m0.name = m1.name
    /\ m0.type = m1.type
    /\ m0.units = m1.units
    /\ m0.is_meta = m1.is_meta
    /\ m0.type \in ArrayKinds => m0.len = m1.len /\ m0.item_type = m1.item_type
    /\ m0.type = "RECORD_TYPE" =>
         /\ Len(m0.metrics) = Len(m1.metrics)
         /\ \A i \in 1..Len(m0.metrics) :
              FieldCompatible(m0.metrics[i], m1.metrics[i])

\* C25: for every pair of loadable schemas Schema.compatible returns a
\* Boolean, which is True exactly when the schemas have the same number of
\* fields and every pair of fields, in order, is compatible as stated; the
\* heap size of a list is not compared.
C25_Compatible ==
    fn.f = "compatible" =>
        LET a == Schema_from_dict(fn.a).val
            b == Schema_from_dict(fn.b).val
        IN  /\ fn.ok
            /\ fn.ret = Py("bool",
                   /\ Len(a.metrics) = Len(b.metrics)
                   /\ \A i \in 1..Len(a.metrics) :
                        FieldCompatible(a.metrics[i], b.metrics[i]))

(***************************************************************************)
(* Communicator: arguments rejected before the send, and the life of a     *)
(* session.                                                                *)
(***************************************************************************)
\* updtr_add or updtr_start has returned EINVAL with the message of its own
\* check of the arguments, which no reply of the daemon carries.
RejectedLocally ==
    /\ last.op \in {"updtr_add", "updtr_start"}
    /\ last.ret # <<>>
    /\ last.ret[1].errcode = EINVAL
    /\ last.ret[1].body \in
         { Py("str", <<"EINVAL">>),
           Py("str", <<"'auto' is incompatible with 'interval'">>) }

\* C31: when updtr_add or updtr_start rejects its arguments with EINVAL, no
\* request has been handed to the transport, no transport has been closed
\* or allocated, and the state of the session and its transport are the ones
\* it had before the call.
C31_RejectedBeforeSend ==
    RejectedLocally =>
        /\ last.sent = <<>>
        /\ last.recv = None
        /\ last.closed = 0
        /\ last.allocated = 0
        /\ state = last.before.state
        /\ ldms = last.before.ldms

\* updtr_start has rejected interval together with auto on a CONNECTED
\* session, which is CONNECTED still.
C31_Witness ==
    /\ RejectedLocally
    /\ last.op = "updtr_start"
    /\ last.before.state = CONNECTED
    /\ state = CONNECTED
    /\ ldms = "connected"

\* C34: a session that has left INIT never is in INIT again; a CLOSED
\* session becomes CONNECTED through reconnect only; and connect on a CLOSED
\* session returns False and leaves it CLOSED.
C34_LifecycleOneWay ==
    [][ /\ state # INIT => state' # INIT
        /\ state = CLOSED /\ state' = CONNECTED => last'.op = "reconnect"
        /\ state = CLOSED /\ last'.op = "connect"
             => /\ last'.ret = <<Ret("value", 0, Py("bool", FALSE))>>
                /\ state' = CLOSED ]_vars

\* C34 for the CLOSED sessions that hold no transport, which are the ones
\* that close left so.
C34_ClosedWithoutTransport ==
    [][ /\ state # INIT => state' # INIT
        /\ state = CLOSED /\ ldms = None /\ state' = CONNECTED
             => last'.op = "reconnect"
        /\ state = CLOSED /\ ldms = None /\ last'.op = "connect"
             => /\ last'.ret = <<Ret("value", 0, Py("bool", FALSE))>>
                /\ state' = CLOSED ]_vars

(***************************************************************************)
(* SchemaRegistry: the three keys of an id under concurrent requests.      *)
(***************************************************************************)
\* No handler is between the first etcd call of its request and its return.
NoneInFlight == \A h \in Handlers : hs[h].pc \notin EtcdPcs

\* The object key, the name key and the digest key of every id are in the
\* store together or not at all, and the store holds no other key.
KeysAgree ==
    /\ \A d \in Accepted :
         AddKeys(d) \subseteq DOMAIN kv \/ AddKeys(d) \cap DOMAIN kv = {}
    /\ DOMAIN kv \subseteq UNION { AddKeys(d) : d \in Accepted }

\* C33: when no etcd call has failed and no request is in flight, the three
\* keys of each id agree, however the adds and deletes of the handlers were
\* interleaved.
C33_IndexConsistency == (nfail = 0 /\ NoneInFlight) => KeysAgree

\* C33 for the handlers of one server, which run one after the other.
C33_OneServer == (nservers = 1 /\ nfail = 0 /\ NoneInFlight) => KeysAgree

(***************************************************************************)
(* SchemaRegistry.purge_database.                                          *)
(***************************************************************************)
\* A key of this registry: one under its root prefix.
UnderRoot(k) == StartsWith(k, etcd_prefix \o <<SL>>)

\* C38: purge_database removes every key of the registry (objects, name
\* index, digest index) and leaves every other key with its value, the keys
\* of a registry whose root prefix begins with this one's among them.
C38_PurgeOwnKeysOnly ==
    fn.f = "purge_database" =>
        /\ \A k \in DOMAIN fn.kv1 : ~UnderRoot(k)
        /\ \A k \in DOMAIN fn.kv0 :
             ~UnderRoot(k) => k \in DOMAIN fn.kv1 /\ fn.kv1[k] = fn.kv0[k]

\* C38 for the stores without a key whose first part begins with the root
\* prefix and goes on.
C38_NoSiblingPrefix ==
    (fn.f = "purge_database"
       /\ \A k \in DOMAIN fn.kv0 : StartsWith(k, etcd_prefix) => UnderRoot(k))
    => C38_PurgeOwnKeysOnly

(***************************************************************************)
(* Schema.compatible as a relation, against the digest and the codec.      *)
(***************************************************************************)
\* The schemas that the two documents of a call load as.
LoadedA == Schema_from_dict(fn.a).val

LoadedB == Schema_from_dict(fn.b).val

\* C35: over the schemas loadable from JSON a.compatible(a) is true, and
\* a.compatible(b) returns the Boolean that b.compatible(a) returns, also
\* when corresponding fields are of different classes of one kind.
C35_ReflexiveSymmetric ==
    fn.f = "compatible" =>
        /\ Schema_compatible(LoadedA, LoadedA) = Ok(TRUE)
        /\ fn.ok
        /\ Schema_compatible(LoadedB, LoadedA) = Ok(fn.ret.b)

\* a.compatible(a) is true.
C35_Reflexive ==
    fn.f = "compatible" => Schema_compatible(LoadedA, LoadedA) = Ok(TRUE)

\* Corresponding fields are of one class.
SameClasses(ms, ns) ==
    \A i \in 1..Len(ms) : i <= Len(ns) => ms[i].cls = ns[i].cls

\* C35 for the pairs whose corresponding fields are of one class.
C35_SameClasses ==
    (fn.f = "compatible" /\ SameClasses(LoadedA.metrics, LoadedB.metrics))
    => C35_ReflexiveSymmetric

\* C36: if a.compatible(b) is true then a and b have the same digest, and
\* with the same name the same id.
C36_CompatibleSameDigest ==
    (fn.f = "compatible" /\ fn.ret = Py("bool", TRUE)) =>
        /\ fn.d0 # <<>> /\ fn.d1 # <<>>
        /\ fn.d0[1] = fn.d1[1]
        /\ fn.a.name = fn.b.name => fn.d0[2] = fn.d1[2]

\* C36 for the schemas that have a digest.
C36_WhereDigestsExist ==
    (fn.f = "compatible" /\ fn.d0 # <<>> /\ fn.d1 # <<>>)
    => C36_CompatibleSameDigest

\* C37: for every schema s, loaded from a document or built by the
\* constructors, s.compatible(Schema.from_json(s.as_json())) is true.
C37_RoundTripCompatible ==
    fn.f \in {"from_json", "as_json"} => fn.ok /\ fn.ret = Py("bool", TRUE)

\* C37 for the schemas loaded from a document whose field types
\* STR_TYPE_TBL holds under the string that as_dict writes.
C37_LoadedAndTabled ==
    (fn.f = "from_json"
       /\ \A i \in 1..Len(fn.a.fields) :
            fn.a.fields[i].type \notin {"s32[]", "int[]"})
    => C37_RoundTripCompatible

(***************************************************************************)
(* Schema.as_ldms_schema.                                                  *)
(***************************************************************************)
\* The field of a document that loads as a record array.
IsRecordArray(f) == f.type = "array" /\ f.items = "record"

\* A field before the i-th has the name that the i-th gives as its
\* record_type, and is a record.
RecordBefore(fields, i) ==
    \E j \in 1..(i - 1) :
        fields[j].name = fields[i].record_type[1] /\ fields[j].type = "record"

\* The record arrays of a document with no such record before them.
DanglingArrays(fields) ==
    { i \in 1..Len(fields) :
        IsRecordArray(fields[i]) /\ ~RecordBefore(fields, i) }

\* C32: as_ldms_schema adds the fields in the order of the schema; a record
\* array is added only after a record field named by its record_type, with
\* the definition of that record; with a record array that no such record
\* precedes the call raises at that field, and otherwise it adds every
\* field.
C32_MaterializeInOrder ==
    fn.f = "as_ldms_schema" =>
        LET fields == fn.a.fields
            n == Len(fn.sch)
        IN  /\ n <= Len(fields)
            /\ \A i \in 1..n : fn.sch[i].name = fields[i].name
            /\ \A i \in 1..n :
                 fn.sch[i].metric_type = TypeStr("record[]") =>
                     /\ RecordBefore(fields, i)
                     /\ fn.sch[i].rec_def # <<>>
                     /\ fn.sch[i].rec_def[1].cls = "RecordDef"
                     /\ fn.sch[i].rec_def[1].name = fields[i].record_type[1]
            /\ fn.ok <=> DanglingArrays(fields) = {}
            /\ fn.ok => n = Len(fields)
            /\ ~fn.ok =>
                 /\ n + 1 \in DanglingArrays(fields)
                 /\ \A i \in DanglingArrays(fields) : i > n
                 /\ fn.exc \in {"ValueError", "TypeError"}

\* A record array is realized as the third field, after its record.
C32_Realized ==
    /\ fn.f = "as_ldms_schema" /\ fn.ok /\ Len(fn.sch) = MaxFields
    /\ fn.sch[MaxFields].metric_type = TypeStr("record[]")
    /\ fn.sch[MaxFields].rec_def # <<>>

=============================================================================
